---------------------------- MODULE Spec2Model ----------------------------
(***************************************************************************)
(* A model of the carCrawler pipeline (src/main.py, with the older         *)
(* variant src/car_crawler.py where the two differ):                       *)
(*   extract_store_objects  the balanced-brace scanner and the JSON parse  *)
(*   clean_model_name, clean_brand_name and the other text transforms      *)
(*   extract_fields         the mapping of the parsed tree to a record     *)
(*   write_to_supabase      the read-then-write reconciler                 *)
(*   process_url_single     the retry loop around one detail page          *)
(*   crawl_kvd              the loop over the detail URLs of the listing   *)
(*   handle_request         the HTTP entry point                           *)
(*                                                                         *)
(* Each part has its own specification over the shared variables           *)
(* (SpecStore, SpecExtract, SpecClean, SpecFields, SpecCrawl); the         *)
(* variables of the other parts stay at rest in it.  SpecSingle is the     *)
(* crawl of a listing of one URL, SpecSingleFair adds the fairness of the  *)
(* service's single thread, SpecWorkers runs write_to_supabase in two      *)
(* workers, one after the other or interleaved, and SpecImage is the       *)
(* choice of the main image of a detail page.                              *)
(*                                                                         *)
(* Python values are encoded uniformly as records                          *)
(*   [t |-> tag, s |-> characters, n |-> number, items |-> members]        *)
(* so that a dict, a list, a string, a number, None and a raised exception *)
(* can all be held by one variable.  A string value is a sequence of       *)
(* one-character strings, because the regular expressions of the source    *)
(* work on characters.  A float is held in tenths (n = 10 * value).        *)
(***************************************************************************)
EXTENDS Integers, Sequences, FiniteSets, Bags, TLC

VARIABLES
    pc,          \* which phase of the specification at hand has run
    store,       \* the car_auctions table: a bag of rows
    calls,       \* how many write_to_supabase calls were made
    prev,        \* summary of the call before the last one
    last,        \* summary of the last write_to_supabase call
    parts,       \* the script text as prefix, body and suffix
    text,        \* the script text handed to extract_store_objects
    extracted,   \* what extract_store_objects returned
    name,        \* the string handed to the cleaning functions
    cleaned,     \* what the cleaning functions returned
    shape,       \* how the tree was put together
    tree,        \* the parsed tree handed to extract_fields
    fields,      \* what extract_fields of main.py and of car_crawler.py returned
    total,       \* how many detail URLs the crawl goes through
    urlIdx,      \* the 1-based position of the URL at hand
    attempt,     \* how many attempts process_url_single has made for it
    phase,       \* where the crawl stands with the URL at hand
    status,      \* what the last no-follow fetch answered
    pending,     \* the record and preview image on their way to write_to_supabase
    counts,      \* calls made for the URL at hand
    request,     \* the HTTP request waiting at the surface
    listing,     \* what fetching the listing page will give, until it is fetched
    detail_urls, \* the URLs crawl_kvd goes through, as positions of the listing
    processed,   \* the URLs process_url_single has been called for, in call order
    backoff,     \* the except branch the last pass ended in and the seconds it slept
    ended,       \* how process_url_single ended for the URL at hand
    response,    \* what handle_request answered
    workers,     \* where each concurrent worker stands in its write_to_supabase call
    schedule,    \* whether calls are made one after another or concurrently
    detail_soup, \* a fetched detail page: its store data and its meta tags
    main_image   \* the image URL and image source chosen for the page

storeVars == <<store, calls, prev, last>>
extractVars == <<parts, text, extracted>>
cleanVars == <<name, cleaned>>
fieldVars == <<shape, tree, fields>>
crawlVars == <<total, urlIdx, attempt, phase, status, pending, counts, request, listing,
               detail_urls, processed, backoff, ended, response>>
workerVars == <<workers, schedule>>
imageVars == <<detail_soup, main_image>>
vars == <<pc, storeVars, extractVars, cleanVars, fieldVars, crawlVars, workerVars, imageVars>>

-----------------------------------------------------------------------------
(* Python values *)

JVal(tag, chars, num, members) == [t |-> tag, s |-> chars, n |-> num, items |-> members]
JNull == JVal("null", <<>>, 0, <<>>)
JStr(chars) == JVal("str", chars, 0, <<>>)
JInt(num) == JVal("int", <<>>, num, <<>>)
JFloat(tenths) == JVal("float", <<>>, tenths, <<>>)
JBool(b) == JVal("bool", <<>>, IF b THEN 1 ELSE 0, <<>>)
JObj(members) == JVal("obj", <<>>, 0, members)
JArr(members) == JVal("arr", <<>>, 0, members)
Item(key, val) == [k |-> key, v |-> val]
\* an exception that propagates out of the expression that raised it
Raise(kind) == JVal("raise", <<kind>>, 0, <<>>)
IsRaise(v) == v.t = "raise"

\* bool(v): None, False, 0, 0.0, "", {} and [] are falsy
Truthy(v) ==
    CASE v.t = "null" -> FALSE
      [] v.t \in {"bool", "int", "float"} -> v.n # 0
      [] v.t = "str" -> v.s # <<>>
      [] v.t \in {"obj", "arr"} -> v.items # <<>>
      [] OTHER -> TRUE

\* d.get(key, default): AttributeError on anything that is not a dict
PyGet(d, key, default) ==
    IF IsRaise(d) THEN d
    ELSE IF d.t # "obj" THEN Raise("AttributeError")
    ELSE LET idx == {i \in 1..Len(d.items) : d.items[i].k = key}
         IN IF idx = {} THEN default ELSE d.items[CHOOSE i \in idx : TRUE].v

\* a or b
PyOr(a, b) == IF IsRaise(a) THEN a ELSE IF Truthy(a) THEN a ELSE b

\* d[key] = val on a dict
PySet(d, key, val) ==
    IF \E i \in 1..Len(d.items) : d.items[i].k = key
    THEN JObj([i \in 1..Len(d.items) |->
                 IF d.items[i].k = key THEN Item(key, val) ELSE d.items[i]])
    ELSE JObj(Append(d.items, Item(key, val)))

-----------------------------------------------------------------------------
(* Characters and numbers *)

Digits == {"0", "1", "2", "3", "4", "5", "6", "7", "8", "9"}
DigitVal == [c \in Digits |-> CHOOSE d \in 0..9 : ToString(d) = c]
IsDigits(chars) == chars # <<>> /\ \A i \in 1..Len(chars) : chars[i] \in Digits

RECURSIVE Num(_)
\* the value of a run of decimal digits
Num(chars) ==
    IF chars = <<>> THEN 0
    ELSE 10 * Num(SubSeq(chars, 1, Len(chars) - 1)) + DigitVal[chars[Len(chars)]]

\* float(v) as write_to_supabase and extract_fields call it; strings are read
\* as digits with at most one digit after the point
PyFloat(v) ==
    CASE IsRaise(v) -> v
      [] v.t = "float" -> v
      [] v.t \in {"int", "bool"} -> JFloat(10 * v.n)
      [] v.t = "str" ->
           LET dots == {i \in 1..Len(v.s) : v.s[i] = "."}
           IN IF IsDigits(v.s) THEN JFloat(10 * Num(v.s))
              ELSE IF /\ dots = {Len(v.s) - 1}
                      /\ IsDigits(SubSeq(v.s, 1, Len(v.s) - 2))
                      /\ v.s[Len(v.s)] \in Digits
                   THEN JFloat(10 * Num(SubSeq(v.s, 1, Len(v.s) - 2))
                               + DigitVal[v.s[Len(v.s)]])
                   ELSE Raise("ValueError")
      [] OTHER -> Raise("TypeError")

\* int(v): a float is truncated, a string must be all digits
PyInt(v) ==
    CASE IsRaise(v) -> v
      [] v.t = "int" -> v
      [] v.t = "bool" -> JInt(v.n)
      [] v.t = "float" -> JInt(v.n \div 10)
      [] v.t = "str" -> IF IsDigits(v.s) THEN JInt(Num(v.s)) ELSE Raise("ValueError")
      [] OTHER -> Raise("TypeError")

UpperToLower ==
    [A |-> "a", B |-> "b", C |-> "c", D |-> "d", E |-> "e", F |-> "f", G |-> "g",
     H |-> "h", I |-> "i", J |-> "j", K |-> "k", L |-> "l", M |-> "m", N |-> "n",
     O |-> "o", P |-> "p", Q |-> "q", R |-> "r", S |-> "s", T |-> "t", U |-> "u",
     V |-> "v", W |-> "w", X |-> "x", Y |-> "y", Z |-> "z"]
\* str.lower() of one character
Lower(c) == IF c \in DOMAIN UpperToLower THEN UpperToLower[c] ELSE c

-----------------------------------------------------------------------------
(* write_to_supabase: the reconciler *)

\* A dict key of db_data or numeric_fields, split as field[0] and field[1:]
K(first, rest) == [first |-> first, rest |-> rest]

ColumnTable ==
    << [col |-> K("a", "uction_id"), field |-> "auctionId"],
       [col |-> K("c", "losed_at"), field |-> "closedAt"],
       [col |-> K("p", "ublished_at"), field |-> "publishedAt"],
       [col |-> K("s", "old_for"), field |-> "soldFor"],
       [col |-> K("s", "ell_method"), field |-> "sellMethod"],
       [col |-> K("s", "lug"), field |-> "slug"],
       [col |-> K("a", "uction_url"), field |-> "auctionUrl"],
       [col |-> K("b", "uy_now_amount"), field |-> "buyNowAmount"],
       [col |-> K("b", "uy_now_available"), field |-> "buyNowAvailable"],
       [col |-> K("p", "reliminary_price"), field |-> "preliminaryPrice"],
       [col |-> K("i", "s_sold_by_buy_now"), field |-> "isSoldByBuyNow"],
       [col |-> K("w", "inning_bid"), field |-> "winningBid"],
       [col |-> K("r", "eservation_price_reached"), field |-> "reservationPriceReached"],
       [col |-> K("h", "ighest_bid"), field |-> "highestBid"],
       [col |-> K("e", "lectric_type"), field |-> "electricType"],
       [col |-> K("o", "dometer_reading"), field |-> "odometerReading"],
       [col |-> K("b", "ody"), field |-> "body"],
       [col |-> K("b", "rand"), field |-> "brand"],
       [col |-> K("f", "amily_name"), field |-> "familyName"],
       [col |-> K("r", "egistration_plate"), field |-> "registrationPlate"],
       [col |-> K("m", "odel_name"), field |-> "modelName"],
       [col |-> K("m", "odel_name_presentation"), field |-> "modelNamePresentation"],
       [col |-> K("y", "ear"), field |-> "year"],
       [col |-> K("f", "acility_post_code"), field |-> "facilityPostCode"],
       [col |-> K("f", "acility_city"), field |-> "facilityCity"],
       [col |-> K("f", "uel_code"), field |-> "fuelCode"],
       [col |-> K("b", "attery_capacity"), field |-> "batteryCapacity"],
       [col |-> K("r", "ange_city_wltp_drive"), field |-> "rangeCityWltpDrive"],
       [col |-> K("r", "ange_wltp_drive"), field |-> "rangeWltpDrive"],
       [col |-> K("e", "ngine_power_hp"), field |-> "enginePowerHp"],
       [col |-> K("e", "ngine_power"), field |-> "enginePower"],
       [col |-> K("g", "earbox"), field |-> "gearbox"],
       [col |-> K("m", "ain_image_url"), field |-> "mainImageUrl"],
       [col |-> K("o", "bject_view_json"), field |-> "objectViewJson"],
       [col |-> K("b", "ase_object_type"), field |-> "base_object_type"] >>

numeric_fields ==
    << [field |-> K("s", "oldFor"), type |-> "float"],
       [field |-> K("b", "uyNowAmount"), type |-> "float"],
       [field |-> K("p", "reliminaryPrice"), type |-> "float"],
       [field |-> K("w", "inningBid"), type |-> "float"],
       [field |-> K("h", "ighestBid"), type |-> "float"],
       [field |-> K("o", "dometerReading"), type |-> "int"],
       [field |-> K("y", "ear"), type |-> "int"],
       [field |-> K("b", "atteryCapacity"), type |-> "float"],
       [field |-> K("r", "angeCityWltpDrive"), type |-> "int"],
       [field |-> K("r", "angeWltpDrive"), type |-> "int"],
       [field |-> K("e", "nginePowerHp"), type |-> "int"],
       [field |-> K("e", "nginePower"), type |-> "int"] >>

RECURSIVE ReplaceZ(_)
\* str.replace('Z', '+00:00')
ReplaceZ(chars) ==
    IF chars = <<>> THEN <<>>
    ELSE (IF Head(chars) = "Z" THEN <<"+", "0", "0", ":", "0", "0">> ELSE <<Head(chars)>>)
         \o ReplaceZ(Tail(chars))

\* one round of the loop over ['closedAt', 'publishedAt']: the field's new value
\* (isoformat() of a value that is no datetime raises AttributeError)
DateField(v) ==
    IF v.t = "str" THEN (IF Truthy(v) THEN JStr(ReplaceZ(v.s)) ELSE JNull)
    ELSE IF Truthy(v) THEN Raise("AttributeError")
    ELSE v

\* data after the datetime loop; a key that is absent is left absent
NormalizeDates(data) ==
    LET one(d, f) == IF \E i \in 1..Len(d.items) : d.items[i].k = f
                     THEN PySet(d, f, DateField(PyGet(d, f, JNull)))
                     ELSE d
    IN one(one(data, "closedAt"), "publishedAt")

\* json.dumps(v): a string holding the serialization of v
JsonDumps(v) == JVal("json", <<>>, 0, <<Item("", v)>>)

\* db_data as the dict literal builds it, in column order
DbData(data) ==
    LET ovj == PyGet(data, "objectViewJson", JNull)
    IN [i \in 1..Len(ColumnTable) |->
          [k |-> ColumnTable[i].col,
           v |-> IF ColumnTable[i].field = "objectViewJson"
                 THEN (IF Truthy(ovj) THEN JsonDumps(ovj) ELSE ovj)
                 ELSE PyGet(data, ColumnTable[i].field, JNull)]]

\* db_data.get(key)
DbGet(db, key) ==
    LET idx == {i \in 1..Len(db) : db[i].k = key}
    IN IF idx = {} THEN JNull ELSE db[CHOOSE i \in idx : TRUE].v

\* db_field = field[0].lower() + field[1:]
DbFieldOf(field) == K(Lower(field.first), field.rest)

\* type_func(value) inside try/except (ValueError, TypeError): None on failure
Coerce(type, v) ==
    LET r == IF type = "float" THEN PyFloat(v) ELSE PyInt(v)
    IN IF IsRaise(r) THEN JNull ELSE r

RECURSIVE CoerceNumeric(_, _)
\* the loop over numeric_fields.items(), from entry i on
CoerceNumeric(db, i) ==
    IF i > Len(numeric_fields) THEN db
    ELSE LET db_field == DbFieldOf(numeric_fields[i].field)
             value == DbGet(db, db_field)
             next == IF value.t # "null"
                     THEN [j \in 1..Len(db) |->
                             IF db[j].k = db_field
                             THEN [k |-> db_field, v |-> Coerce(numeric_fields[i].type, value)]
                             ELSE db[j]]
                     ELSE db
         IN CoerceNumeric(next, i + 1)

\* the value of column auction_id in a stored row
RowId(row) == DbGet(row, K("a", "uction_id"))

\* SELECT * FROM car_auctions WHERE auction_id = %s: the rows that match
\* (in SQL no row equals NULL)
SelectRows(st, id) ==
    IF id.t = "null" THEN {} ELSE {r \in BagToSet(st) : RowId(r) = id}

\* variant: the existence check never finds the row
ExistingRecordNever(st, id) == FALSE

\* "if existing_record:" after cur.fetchone()
ExistingRecord(st, id) == SelectRows(st, id) # {}

RECURSIVE CopiesOf(_, _)
\* how many stored rows are in the set rows
CopiesOf(st, rows) ==
    IF rows = {} THEN 0
    ELSE LET r == CHOOSE x \in rows : TRUE
         IN CopiesIn(r, st) + CopiesOf(st, rows \ {r})

\* variant: the update has no WHERE clause and sets every row of the table
SqlUpdateEveryRow(st, db, id) ==
    IF BagToSet(st) = {} THEN st
    ELSE [r \in {db} |-> CopiesOf(st, BagToSet(st))]

\* variant: the update leaves a column alone when the new value is null
SqlUpdateKeepsNonNull(st, db, id) ==
    LET hit == SelectRows(st, id)
        rest == [r \in BagToSet(st) \ hit |-> CopiesIn(r, st)]
        merged(r) == [j \in 1..Len(db) |->
                        IF db[j].v = JNull THEN [k |-> db[j].k, v |-> DbGet(r, db[j].k)]
                        ELSE db[j]]
    IN IF hit = {} THEN st
       ELSE rest (+) SetToBag({merged(r) : r \in hit})

\* UPDATE car_auctions SET <every column> WHERE auction_id = %s
SqlUpdate(st, db, id) ==
    LET hit == SelectRows(st, id)
        rest == [r \in BagToSet(st) \ hit |-> CopiesIn(r, st)]
    IN IF hit = {} THEN st
       ELSE rest (+) [r \in {db} |-> CopiesOf(st, hit)]

\* INSERT INTO car_auctions (<every column>) VALUES (...)
SqlInsert(st, db) == st (+) SetToBag({db})

\* variant: the early return tests the record only, not its auctionId
GuardSkipsEmptyOnly(data) == ~Truthy(data)

\* "if not data or not data.get('auctionId')": the early return
GuardSkips(data) == ~Truthy(data) \/ ~Truthy(PyGet(data, "auctionId", JNull))

\* the points at which the connection or a query can raise
FailPoints == {"none", "connect", "select", "write", "commit"}

NoCall ==
    [data |-> JNull, outcome |-> "nocall", connects |-> 0, reads |-> 0, writes |-> 0,
     branch |-> "none", committed |-> FALSE, rowsBefore |-> 0, db |-> <<>>, after |-> EmptyBag]

\* One call write_to_supabase(data) on the table st, where the database raises
\* at point fail: the call's summary, with the table it leaves in "after".
\* Every exception inside the try block is caught and logged.
write_to_supabase(data, st, fail) ==
    IF GuardSkips(data)
    THEN [NoCall EXCEPT !.data = data, !.outcome = "skipped", !.after = st]
    ELSE
      LET dated == NormalizeDates(data)
          id == PyGet(data, "auctionId", JNull)
          db == CoerceNumeric(DbData(dated), 1)
          existing == ExistingRecord(st, id)
          base == [NoCall EXCEPT !.data = data, !.outcome = "error", !.after = st,
                                 !.rowsBefore = CopiesOf(st, SelectRows(st, id))]
      IN IF \E i \in 1..Len(dated.items) : IsRaise(dated.items[i].v)
         THEN base
         ELSE IF fail = "connect" THEN [base EXCEPT !.connects = 1]
         ELSE IF fail = "select" THEN [base EXCEPT !.connects = 1, !.reads = 1]
         ELSE LET issued == [base EXCEPT !.connects = 1, !.reads = 1, !.writes = 1,
                                         !.db = db,
                                         !.branch = IF existing THEN "update" ELSE "insert"]
              IN IF fail \in {"write", "commit"} THEN issued
                 ELSE [issued EXCEPT !.outcome = issued.branch, !.committed = TRUE,
                                     !.after = IF existing THEN SqlUpdate(st, db, id)
                                               ELSE SqlInsert(st, db)]

-----------------------------------------------------------------------------
(* The reconciler called again and again on one table *)

\* bound: how many write_to_supabase calls one behaviour makes
MaxCalls == 2

AuctionIds == {JStr(<<"7">>), JStr(<<"8">>)}

\* a record as process_url_single hands it over
MkRecord(id, closedAt, buyNowAmount) ==
    JObj(<< Item("auctionId", id),
            Item("closedAt", closedAt),
            Item("soldFor", JFloat(1000)),
            Item("buyNowAmount", buyNowAmount),
            Item("year", JStr(<<"2", "0", "2", "0">>)),
            Item("objectViewJson", JObj(<<Item("storeObjects", JObj(<<>>))>>)),
            Item("mainImageUrl", JNull),
            Item("imageSource", JNull) >>)

StoreRecords ==
    {JObj(<<>>), JObj(<<Item("closedAt", JNull)>>)}
    \cup {MkRecord(id, c, b) :
            id \in AuctionIds \cup {JNull, JStr(<<>>)},
            c \in {JNull, JStr(<<"1", "Z">>)},
            b \in {JNull, JStr(<<"a", "b", "c">>)}}

\* a row that an earlier crawl stored
EarlierRow == CoerceNumeric(DbData(MkRecord(JStr(<<"7">>), JNull, JNull)), 1)

\* the variables of the other specifications, at rest
IdleStore == store = EmptyBag /\ calls = 0 /\ prev = NoCall /\ last = NoCall
IdleExtract ==
    /\ parts = [prefix |-> <<>>, body |-> <<>>, suffix |-> <<>>]
    /\ text = <<>>
    /\ extracted = JNull
IdleClean == name = JNull /\ cleaned = [model |-> JNull, brand |-> JNull, battery |-> JNull, tesla |-> JNull,
               power |-> JNull]
IdleWorkers == workers = <<>> /\ schedule = "none"
IdleImage ==
    /\ detail_soup = [store |-> JNull, metas |-> <<>>]
    /\ main_image = [url |-> JNull, source |-> JNull]
IdleFields ==
    /\ shape = <<>> /\ tree = JNull
    /\ fields = [main |-> JNull, car_crawler |-> JNull]
NoFetch == [ok |-> FALSE, code |-> 0]
NoCounts == [extracts |-> 0, maps |-> 0, writes |-> 0]
NoRecord == [record |-> JNull, preview |-> JNull]
IdleCrawl ==
    /\ total = 0 /\ urlIdx = 0 /\ attempt = 0 /\ phase = "idle"
    /\ status = NoFetch /\ pending = NoRecord /\ counts = NoCounts
    /\ request = [method |-> "", json |-> JNull]
    /\ listing = [ok |-> FALSE, links |-> 0]
    /\ detail_urls = <<>> /\ processed = <<>>
    /\ backoff = [raised |-> "", seconds |-> 0] /\ ended = ""
    /\ response = [payload |-> JNull, code |-> 0]

InitStore ==
    /\ pc = "store"
    /\ store \in {EmptyBag, SetToBag({EarlierRow})}
    /\ calls = 0
    /\ prev = NoCall
    /\ last = NoCall
    /\ IdleExtract /\ IdleClean /\ IdleFields /\ IdleCrawl /\ IdleWorkers /\ IdleImage

\* one call of write_to_supabase, whole
WriteToSupabase ==
    /\ pc = "store"
    /\ calls < MaxCalls
    /\ \E data \in StoreRecords, fail \in FailPoints :
         LET r == write_to_supabase(data, store, fail)
         IN /\ store' = r.after
            /\ last' = [r EXCEPT !.after = EmptyBag]
            /\ prev' = last
    /\ calls' = calls + 1
    /\ UNCHANGED <<pc, extractVars, cleanVars, fieldVars, crawlVars,
                   workerVars, imageVars>>

NextStore == WriteToSupabase

SpecStore == InitStore /\ [][NextStore]_vars

-----------------------------------------------------------------------------
(* Claims about the reconciler, checked under SpecStore *)

\* how many stored rows carry the auction id of record data
RowsFor(st, data) == CopiesOf(st, SelectRows(st, PyGet(data, "auctionId", JNull)))

\* the last two calls were the same record and both committed
TwiceSameRecord ==
    /\ calls >= 2
    /\ prev.data = last.data
    /\ prev.committed /\ last.committed

\* C1: two successive successful calls of write_to_supabase with the same record
\* leave exactly one row for its auctionId; the first call inserts if the id was
\* absent, the second call takes the update branch and issues no insert.
C1_UpsertTwiceOneRow ==
    TwiceSameRecord =>
        /\ RowsFor(store, last.data) = 1
        /\ (prev.rowsBefore = 0 => prev.branch = "insert")
        /\ last.branch = "update"

C1_Witness ==
    /\ TwiceSameRecord
    /\ prev.rowsBefore = 0
    /\ prev.outcome = "insert"
    /\ last.outcome = "update"

\* the record is empty, or its auctionId is missing, None or ""
NoAuctionId(data) ==
    \/ data.items = <<>>
    \/ ~\E i \in 1..Len(data.items) : data.items[i].k = "auctionId"
    \/ PyGet(data, "auctionId", JNull) \in {JNull, JStr(<<>>)}

\* C2: write_to_supabase called with an empty record or with a record whose
\* auctionId is null or empty opens no connection, issues no read and no write
\* query, leaves the store unchanged and returns without raising.
C2_NoIdIsNoOp ==
    [][(calls' = calls + 1 /\ NoAuctionId(last'.data)) =>
          /\ store' = store
          /\ last'.connects = 0 /\ last'.reads = 0 /\ last'.writes = 0
          /\ last'.outcome = "skipped"]_vars

C2_Witness ==
    /\ calls >= 1
    /\ last.data.items # <<>>
    /\ PyGet(last.data, "auctionId", JStr(<<"x">>)) = JNull
    /\ last.outcome = "skipped"
    /\ store # EmptyBag

-----------------------------------------------------------------------------
(* extract_store_objects: the balanced-brace scanner and json.loads *)

Quote == "\""

\* the first index at or after i that holds no blank (Len + 1 if there is none)
SkipWs(chars, i) ==
    LET rest == {j \in i..Len(chars) : chars[j] # " "}
    IN IF rest = {} THEN Len(chars) + 1
       ELSE CHOOSE j \in rest : \A m \in rest : j <= m

ParseFail == [ok |-> FALSE, v |-> JNull, next |-> 0]
ParseOk(val, nxt) == [ok |-> TRUE, v |-> val, next |-> nxt]

\* a JSON string that opens at chars[i]; the texts of the model hold no backslash
ParseString(chars, i) ==
    LET closing == {j \in (i + 1)..Len(chars) : chars[j] = Quote}
    IN IF closing = {} THEN ParseFail
       ELSE LET j == CHOOSE x \in closing : \A y \in closing : x <= y
            IN ParseOk(JStr(SubSeq(chars, i + 1, j - 1)), j + 1)

\* a JSON integer that opens at chars[i]: "0", or a run of digits with no leading zero
ParseNumber(chars, i) ==
    LET stop == {j \in i..Len(chars) : chars[j] \notin Digits}
        e == IF stop = {} THEN Len(chars) + 1 ELSE CHOOSE x \in stop : \A y \in stop : x <= y
    IN IF chars[i] = "0" THEN ParseOk(JInt(0), i + 1)
       ELSE ParseOk(JInt(Num(SubSeq(chars, i, e - 1))), e)

RECURSIVE ParseValue(_, _)
RECURSIVE ParseObject(_, _)
RECURSIVE ParseMembers(_, _, _)

\* the JSON value that opens at chars[i]: an object, a string or an integer
ParseValue(chars, i) ==
    IF i > Len(chars) THEN ParseFail
    ELSE IF chars[i] = "{" THEN ParseObject(chars, i)
    ELSE IF chars[i] = Quote THEN ParseString(chars, i)
    ELSE IF chars[i] \in Digits THEN ParseNumber(chars, i)
    ELSE ParseFail

\* the object that opens with the brace at chars[i]
ParseObject(chars, i) ==
    LET j == SkipWs(chars, i + 1)
    IN IF j <= Len(chars) /\ chars[j] = "}" THEN ParseOk(JObj(<<>>), j + 1)
       ELSE ParseMembers(chars, j, JObj(<<>>))

\* the members of an object from chars[i] on, added to the dict acc
\* (a repeated key keeps its last value, as a Python dict does)
ParseMembers(chars, i, acc) ==
    IF i > Len(chars) \/ chars[i] # Quote THEN ParseFail
    ELSE
      LET key == ParseString(chars, i)
          colon == IF key.ok THEN SkipWs(chars, key.next) ELSE 0
          val == IF key.ok /\ colon <= Len(chars) /\ chars[colon] = ":"
                 THEN ParseValue(chars, SkipWs(chars, colon + 1))
                 ELSE ParseFail
          m == IF val.ok THEN SkipWs(chars, val.next) ELSE 0
      IN IF ~val.ok \/ m > Len(chars) THEN ParseFail
         ELSE IF chars[m] = "}" THEN ParseOk(PySet(acc, key.v.s, val.v), m + 1)
         ELSE IF chars[m] = ","
              THEN ParseMembers(chars, SkipWs(chars, m + 1), PySet(acc, key.v.s, val.v))
              ELSE ParseFail

\* json.loads(chars) inside try/except JSONDecodeError: the value, or a failure.
\* Nothing but blanks may follow the value.
json_loads(chars) ==
    LET start == SkipWs(chars, 1)
        r == ParseValue(chars, start)
    IN IF r.ok /\ SkipWs(chars, r.next) = Len(chars) + 1 THEN r ELSE ParseFail

\* variant: the scan starts at the last opening brace
FindLastBrace(chars) ==
    LET opens == {i \in 1..Len(chars) : chars[i] = "{"}
    IN IF opens = {} THEN 0 ELSE CHOOSE i \in opens : \A j \in opens : j <= i

\* script_content.find('{'), 1-based; 0 when there is none
FindFirstBrace(chars) ==
    LET opens == {i \in 1..Len(chars) : chars[i] = "{"}
    IN IF opens = {} THEN 0 ELSE CHOOSE i \in opens : \A j \in opens : i <= j

\* variant: the scan stops at the first closing brace, whatever the depth
ScanEndFirstClose(chars, i, depth) ==
    LET closes == {j \in i..Len(chars) : chars[j] = "}"}
    IN IF closes = {} THEN 0 ELSE CHOOSE j \in closes : \A m \in closes : j <= m

RECURSIVE ScanEnd(_, _, _)
\* the loop "for i in range(start_idx, len(script_content))" from index i on with
\* the depth counted so far: the index at which depth returns to 0, or 0
ScanEnd(chars, i, depth) ==
    IF i > Len(chars) THEN 0
    ELSE IF chars[i] = "{" THEN ScanEnd(chars, i + 1, depth + 1)
    ELSE IF chars[i] = "}"
         THEN (IF depth - 1 = 0 THEN i ELSE ScanEnd(chars, i + 1, depth - 1))
         ELSE ScanEnd(chars, i + 1, depth)

\* variant: after a group that is no JSON the text behind it is searched once
\* more
ExtractOrLater(script_content) ==
    LET start_idx == FindFirstBrace(script_content)
        stop == IF start_idx = 0 THEN 0 ELSE ScanEnd(script_content, start_idx, 0)
        parsed == IF stop = 0 THEN ParseFail
                  ELSE json_loads(SubSeq(script_content, start_idx, stop))
        rest == IF stop = 0 THEN <<>>
                ELSE SubSeq(script_content, stop + 1, Len(script_content))
        start2 == FindFirstBrace(rest)
        stop2 == IF start2 = 0 THEN 0 ELSE ScanEnd(rest, start2, 0)
        parsed2 == IF stop2 = 0 THEN ParseFail ELSE json_loads(SubSeq(rest, start2, stop2))
    IN IF parsed.ok THEN parsed.v ELSE IF parsed2.ok THEN parsed2.v ELSE JNull

\* extract_store_objects(script_content): the parsed object, or None
extract_store_objects(script_content) ==
    LET start_idx == FindFirstBrace(script_content)
        stop == IF start_idx = 0 THEN 0 ELSE ScanEnd(script_content, start_idx, 0)
        parsed == IF stop = 0 THEN ParseFail
                  ELSE json_loads(SubSeq(script_content, start_idx, stop))
    IN IF parsed.ok THEN parsed.v ELSE JNull

-----------------------------------------------------------------------------
(* The extractor applied to script texts prefix + body + suffix *)

\* bound: the length of the text before and of the text after the body
MaxNoise == 2
\* bound: how deep the objects of a body nest
MaxDepth == 2

NoiseChars == {"{", "}", "a"}
Noise == UNION {[1..k -> NoiseChars] : k \in 0..MaxNoise}

StringBodies == {<<>>, <<"a">>, <<"{">>, <<"}">>}
Lit(chars) == <<Quote>> \o chars \o <<Quote>>

RECURSIVE JsonObjects(_)
\* the texts of the JSON objects that nest at most d deep below the top
JsonObjects(d) ==
    {<<"{", "}">>} \cup
    (IF d = 0 THEN {}
     ELSE {<<"{">> \o Lit(<<"a">>) \o <<":">> \o v \o <<"}">> :
             v \in {Lit(c) : c \in StringBodies} \cup {<<"1">>} \cup JsonObjects(d - 1)})

\* balanced texts that are no JSON
Malformed == {<<"{", "a", "}">>, <<"{", Quote, "a", Quote, "}">>}

\* the texts between prefix and suffix: objects, balanced texts that are no
\* JSON, and nothing at all
Bodies == JsonObjects(MaxDepth) \cup Malformed \cup {<<>>}

InitExtract ==
    /\ pc = "extract"
    /\ \E p \in Noise, b \in Bodies, x \in Noise :
         /\ parts = [prefix |-> p, body |-> b, suffix |-> x]
         /\ text = p \o b \o x
    /\ extracted = JNull
    /\ IdleStore /\ IdleClean /\ IdleFields /\ IdleCrawl /\ IdleWorkers /\ IdleImage

\* store_data = extract_store_objects(script.string)
ExtractStoreObjects ==
    /\ pc = "extract"
    /\ extracted' = extract_store_objects(text)
    /\ pc' = "extracted"
    /\ UNCHANGED <<parts, text, storeVars, cleanVars, fieldVars, crawlVars,
                   workerVars, imageVars>>

NextExtract == ExtractStoreObjects

SpecExtract == InitExtract /\ [][NextExtract]_vars

-----------------------------------------------------------------------------
(* Claims about the extractor, checked under SpecExtract *)

\* chars is the text of a well-formed JSON object
WellFormedObject(chars) == chars # <<>> /\ chars[1] = "{" /\ json_loads(chars).ok

\* chars[i] lies inside a string literal (the texts hold no escaped quote)
InString(chars, i) == Cardinality({j \in 1..(i - 1) : chars[j] = Quote}) % 2 = 1

\* no brace of chars lies inside a string literal
NoBraceInStrings(chars) ==
    \A i \in 1..Len(chars) : chars[i] \in {"{", "}"} => ~InString(chars, i)

HasChar(chars, c) == \E i \in 1..Len(chars) : chars[i] = c

\* C3 as stated: for every text prefix + J + suffix with J a well-formed JSON
\* object and prefix and suffix arbitrary (braces included, also inside the
\* strings of J), extract_store_objects returns exactly the parsed value of J.
C3_AnyNoise ==
    (pc = "extracted" /\ WellFormedObject(parts.body)) =>
        extracted = json_loads(parts.body).v

\* C3 as amended: for every text prefix + J + suffix where J is a well-formed
\* JSON object, the prefix holds no opening brace and no string of J holds a
\* brace, extract_store_objects returns exactly the parsed value of J, whatever
\* the suffix is.
C3_NoiseWithoutOpenBrace ==
    (/\ pc = "extracted"
     /\ WellFormedObject(parts.body)
     /\ ~HasChar(parts.prefix, "{")
     /\ NoBraceInStrings(parts.body)) =>
        extracted = json_loads(parts.body).v

C3_Witness ==
    /\ pc = "extracted"
    /\ WellFormedObject(parts.body)
    /\ NoBraceInStrings(parts.body)
    /\ HasChar(parts.prefix, "}") /\ ~HasChar(parts.prefix, "{")
    /\ HasChar(parts.suffix, "{")
    /\ extracted.t = "obj" /\ extracted.items # <<>>
    /\ extracted = json_loads(parts.body).v

RECURSIVE OpenBraces(_, _)
\* how many opening braces of chars are left without a closing brace after them
OpenBraces(chars, open) ==
    IF chars = <<>> THEN open
    ELSE OpenBraces(Tail(chars),
                    IF Head(chars) = "{" THEN open + 1
                    ELSE IF Head(chars) = "}" /\ open > 0 THEN open - 1
                    ELSE open)

Count(chars, c, from, to) == Cardinality({i \in from..to : chars[i] = c})

\* the first opening brace of chars is never closed: from it on, the closing
\* braces never catch up with the opening ones
FirstOpenNeverClosed(chars) ==
    \E f \in 1..Len(chars) :
        /\ chars[f] = "{"
        /\ \A i \in 1..(f - 1) : chars[i] # "{"
        /\ \A j \in f..Len(chars) : Count(chars, "{", f, j) > Count(chars, "}", f, j)

\* C4 as stated: for every text that holds an extra unmatched opening brace,
\* before, inside or after an otherwise balanced object, extract_store_objects
\* returns None.
C4_AnyUnmatchedBrace ==
    (pc = "extracted" /\ OpenBraces(text, 0) > 0) => extracted = JNull

\* C4 as amended: for every text whose first opening brace is never closed (an
\* extra opening brace before or inside the first balanced object),
\* extract_store_objects returns None; an unmatched opening brace after the
\* first balanced object is not seen.
C4_FirstBraceUnclosed ==
    (pc = "extracted" /\ FirstOpenNeverClosed(text)) => extracted = JNull

C4_Witness ==
    /\ pc = "extracted"
    /\ FirstOpenNeverClosed(text)
    /\ WellFormedObject(parts.body) /\ Len(parts.body) > 2
    /\ parts.prefix = <<"{">>
    /\ extracted = JNull

-----------------------------------------------------------------------------
(* The text transforms: clean_model_name, clean_brand_name, the battery and the
   engine-power patterns, the Tesla table *)

Letters == DOMAIN UpperToLower \cup {UpperToLower[c] : c \in DOMAIN UpperToLower}
\* \w
IsWord(c) == c \in Letters \/ c \in Digits \/ c = "_"
\* \s (the texts of the model hold no other white space than the blank)
IsSpace(c) == c = " "

\* the end (exclusive) of the longest run of characters of class cls from i on
RunEnd(chars, i, cls) ==
    LET stop == {j \in i..Len(chars) : chars[j] \notin cls}
    IN IF stop = {} THEN Len(chars) + 1 ELSE CHOOSE j \in stop : \A m \in stop : j <= m

At(chars, i) == IF i >= 1 /\ i <= Len(chars) THEN chars[i] ELSE ""

\* \b after a word character that ends just before index i
BoundaryAt(chars, i) == i > Len(chars) \/ ~IsWord(chars[i])

\* Where a match of the pattern that starts at index i ends (exclusive), or 0.
\*   "parenhk"  \s*\(\d+hk\)                      clean_model_name
\*   "hk"       \s+\d+hk\b                        clean_model_name
\*   "kwh"      \s+\d+(?:[,.]\d+)?\s*kWh\b  (I)   clean_model_name
\*   "comma"    ,\s*                              clean_model_name, clean_brand_name
\* Each repetition is greedy, and in none of these patterns does giving back a
\* character let the rest match, so the greedy match is the only one.
MatchEnd(rx, chars, i) ==
    LET sp == RunEnd(chars, i, {" "})
        d1 == RunEnd(chars, sp, Digits)
        frac == IF At(chars, d1) \in {",", "."} /\ RunEnd(chars, d1 + 1, Digits) > d1 + 1
                THEN RunEnd(chars, d1 + 1, Digits) ELSE d1
        u == RunEnd(chars, frac, {" "})
    IN CASE rx = "parenhk" ->
              LET d == RunEnd(chars, sp + 1, Digits)
              IN IF /\ At(chars, sp) = "("
                    /\ d > sp + 1
                    /\ At(chars, d) = "h" /\ At(chars, d + 1) = "k" /\ At(chars, d + 2) = ")"
                 THEN d + 3 ELSE 0
         [] rx = "hk" ->
              IF /\ sp > i /\ d1 > sp
                 /\ At(chars, d1) = "h" /\ At(chars, d1 + 1) = "k"
                 /\ BoundaryAt(chars, d1 + 2)
              THEN d1 + 2 ELSE 0
         [] rx = "kwh" ->
              IF /\ sp > i /\ d1 > sp
                 /\ Lower(At(chars, u)) = "k" /\ Lower(At(chars, u + 1)) = "w"
                 /\ Lower(At(chars, u + 2)) = "h"
                 /\ BoundaryAt(chars, u + 3)
              THEN u + 3 ELSE 0
         [] rx = "comma" ->
              IF At(chars, i) = "," THEN RunEnd(chars, i + 1, {" "}) ELSE 0

RECURSIVE ReSub(_, _, _, _)
\* re.sub(rx, repl, chars) from index i on: leftmost matches, left to right
ReSub(rx, repl, chars, i) ==
    IF i > Len(chars) THEN <<>>
    ELSE LET e == MatchEnd(rx, chars, i)
         IN IF e > 0 THEN repl \o ReSub(rx, repl, chars, e)
            ELSE <<chars[i]>> \o ReSub(rx, repl, chars, i + 1)

\* str.strip()
Strip(chars) ==
    LET keep == {i \in 1..Len(chars) : ~IsSpace(chars[i])}
    IN IF keep = {} THEN <<>>
       ELSE SubSeq(chars, CHOOSE i \in keep : \A j \in keep : i <= j,
                          CHOOSE i \in keep : \A j \in keep : j <= i)

\* clean_model_name(model_name); re.sub on a value that is no string raises
clean_model_name(model_name) ==
    IF IsRaise(model_name) THEN model_name
    ELSE IF ~Truthy(model_name) THEN JStr(<<>>)
    ELSE IF model_name.t # "str" THEN Raise("TypeError")
    ELSE LET c1 == ReSub("parenhk", <<>>, model_name.s, 1)
             c2 == ReSub("hk", <<>>, c1, 1)
             c3 == ReSub("kwh", <<>>, c2, 1)
         IN JStr(ReSub("comma", <<" ">>, Strip(c3), 1))

\* clean_brand_name(brand_name); strip() exists on strings only
clean_brand_name(brand_name) ==
    IF IsRaise(brand_name) THEN brand_name
    ELSE IF ~Truthy(brand_name) THEN JStr(<<>>)
    ELSE IF brand_name.t # "str" THEN Raise("AttributeError")
    ELSE JStr(ReSub("comma", <<" ">>, Strip(brand_name.s), 1))

\* re.search(r'(\d+(?:[,.]\d+)?)\s*kWh', model_name, re.IGNORECASE): group(1) of
\* the leftmost match, or <<>> when there is none
BatteryMatch(chars) ==
    LET ends(i) == LET d1 == RunEnd(chars, i, Digits)
                       frac == IF At(chars, d1) \in {",", "."}
                                  /\ RunEnd(chars, d1 + 1, Digits) > d1 + 1
                               THEN RunEnd(chars, d1 + 1, Digits) ELSE d1
                       u == RunEnd(chars, frac, {" "})
                   IN IF /\ d1 > i
                         /\ Lower(At(chars, u)) = "k" /\ Lower(At(chars, u + 1)) = "w"
                         /\ Lower(At(chars, u + 2)) = "h"
                      THEN frac ELSE 0
        hits == {i \in 1..Len(chars) : ends(i) > 0}
    IN IF hits = {} THEN <<>>
       ELSE LET i == CHOOSE x \in hits : \A y \in hits : x <= y
            IN SubSeq(chars, i, ends(i) - 1)

\* variant: the decimal comma is left as it is
BatteryFloatNoComma(group) == PyFloat(JStr(group))

\* float(group.replace(',', '.')) of a matched group: digits, or digits, a
\* separator and one digit
BatteryFloat(group) ==
    PyFloat(JStr([i \in 1..Len(group) |-> IF group[i] = "," THEN "." ELSE group[i]]))

\* extract_engine_power_from_model_name(model_name): the digits of the leftmost
\* "(NNNhk)" or "NNNhk" as an int, else None
extract_engine_power_from_model_name(model_name) ==
    IF IsRaise(model_name) THEN model_name
    ELSE IF ~Truthy(model_name) THEN JNull
    ELSE IF model_name.t # "str" THEN Raise("TypeError")
    ELSE
      LET chars == model_name.s
          paren(i) == LET d == RunEnd(chars, i + 1, Digits)
                      IN /\ chars[i] = "(" /\ d > i + 1
                         /\ At(chars, d) = "h" /\ At(chars, d + 1) = "k" /\ At(chars, d + 2) = ")"
          bare(i) == LET d == RunEnd(chars, i, Digits)
                     IN d > i /\ At(chars, d) = "h" /\ At(chars, d + 1) = "k"
          hits == {i \in 1..Len(chars) : paren(i) \/ bare(i)}
      IN IF hits = {} THEN JNull
         ELSE LET i == CHOOSE x \in hits : \A y \in hits : x <= y
                  from == IF paren(i) THEN i + 1 ELSE i
              IN JInt(Num(SubSeq(chars, from, RunEnd(chars, from, Digits) - 1)))

RECURSIVE ReplaceAll(_, _, _)
\* str.replace(old, new) for a non-empty old
ReplaceAll(chars, old, new) ==
    IF Len(chars) < Len(old) THEN chars
    ELSE IF SubSeq(chars, 1, Len(old)) = old
         THEN new \o ReplaceAll(SubSeq(chars, Len(old) + 1, Len(chars)), old, new)
         ELSE <<Head(chars)>> \o ReplaceAll(Tail(chars), old, new)

tesla_capacities ==
    << [key |-> <<"M", "o", "d", "e", "l", " ", "3", " ", "L", "o", "n", "g", " ", "R", "a", "n", "g", "e", " ", "D", "u", "a", "l", " ", "M", "o", "t", "o", "r", " ", "A", "W", "D">>,
        kwh |-> JFloat(820)],
       [key |-> <<"M", "o", "d", "e", "l", " ", "3", " ", "P", "e", "r", "f", "o", "r", "m", "a", "n", "c", "e", " ", "A", "W", "D">>,
        kwh |-> JFloat(820)],
       [key |-> <<"M", "o", "d", "e", "l", " ", "3", " ", "S", "t", "a", "n", "d", "a", "r", "d", " ", "R", "a", "n", "g", "e", " ", "R", "W", "D">>,
        kwh |-> JFloat(550)],
       [key |-> <<"M", "o", "d", "e", "l", " ", "S", " ", "1", "0", "0", "D">>,
        kwh |-> JFloat(1000)],
       [key |-> <<"M", "o", "d", "e", "l", " ", "S", " ", "6", "0">>,
        kwh |-> JFloat(600)],
       [key |-> <<"M", "o", "d", "e", "l", " ", "S", " ", "7", "5", "D">>,
        kwh |-> JFloat(750)],
       [key |-> <<"M", "o", "d", "e", "l", " ", "S", " ", "8", "5", "D">>,
        kwh |-> JFloat(850)],
       [key |-> <<"M", "o", "d", "e", "l", " ", "S", " ", "9", "0", "D">>,
        kwh |-> JFloat(900)],
       [key |-> <<"M", "o", "d", "e", "l", " ", "S", " ", "P", "1", "0", "0", "D">>,
        kwh |-> JFloat(1000)],
       [key |-> <<"M", "o", "d", "e", "l", " ", "S", " ", "P", "8", "5">>,
        kwh |-> JFloat(850)],
       [key |-> <<"M", "o", "d", "e", "l", " ", "X", " ", "L", "R", " ", "A", "W", "D">>,
        kwh |-> JFloat(1000)],
       [key |-> <<"M", "o", "d", "e", "l", " ", "Y", " ", "L", "o", "n", "g", " ", "R", "a", "n", "g", "e", " ", "D", "u", "a", "l", " ", "M", "o", "t", "o", "r", " ", "A", "W", "D">>,
        kwh |-> JFloat(750)],
       [key |-> <<"M", "o", "d", "e", "l", " ", "Y", " ", "P", "e", "r", "f", "o", "r", "m", "a", "n", "c", "e", " ", "D", "u", "a", "l", " ", "M", "o", "t", "o", "r", " ", "A", "W", "D">>,
        kwh |-> JFloat(750)] >>

\* get_tesla_battery_capacity(model_name_short); replace() exists on strings
\* only
get_tesla_battery_capacity(model_name_short) ==
    IF IsRaise(model_name_short) THEN model_name_short
    ELSE IF model_name_short.t # "str" THEN Raise("AttributeError")
    ELSE
    LET cleaned_name == Strip(ReplaceAll(model_name_short.s,
                                         <<"T", "e", "s", "l", "a", " ">>, <<>>))
        hit == {i \in 1..Len(tesla_capacities) : tesla_capacities[i].key = cleaned_name}
    IN IF hit = {} THEN JNull ELSE tesla_capacities[CHOOSE i \in hit : TRUE].kwh

\* the battery capacity read from the model name: None without a match or when
\* float() fails
BatteryOf(model_name) ==
    CASE IsRaise(model_name) -> model_name
      [] ~Truthy(model_name) -> JNull
      [] model_name.t # "str" -> Raise("TypeError")
      [] OTHER ->
           LET group == BatteryMatch(model_name.s)
           IN IF group = <<>> THEN JNull
              ELSE IF IsRaise(BatteryFloat(group)) THEN JNull ELSE BatteryFloat(group)

-----------------------------------------------------------------------------
(* The cleaning functions applied to names *)

\* bound: how many tokens a generated name is made of
MaxTokens == 3

NameTokens ==
    {<<"A">>, <<" ">>, <<",">>, <<"(">>, <<")">>, <<"1">>, <<"h", "k">>,
     <<"k", "W", "h">>, <<".">>}

RECURSIVE Concat(_)
Concat(seqs) == IF seqs = <<>> THEN <<>> ELSE Head(seqs) \o Concat(Tail(seqs))

\* "Model 3 Long Range (228hk), 80,0 kWh,"
ExampleName ==
    <<"M", "o", "d", "e", "l", " ", "3", " ", "L", "o", "n", "g", " ", "R", "a", "n", "g", "e", " ">> \o
    <<"(", "2", "2", "8", "h", "k", ")", ",", " ", "8", "0", ",", "0", " ", "k", "W", "h", ",">>

\* the model names of the battery examples, and two in other letter cases
BatteryNames ==
    { <<"P", "o", "l", "e", "s", "t", "a", "r", " ", "2", " ", "7", "8", " ", "k", "W", "h">>,
      <<"V", "o", "l", "v", "o", " ", "X", "C", "4", "0", " ", "R", "e", "c", "h", "a", "r", "g", "e">>,
      <<"e", "-", "N", "i", "r", "o", " ", "3", "9", "k", "w", "h">>,
      <<"L", "e", "a", "f", " ", "4", "0", ".", "0", " ", "K", "W", "H", " ", "2">> }

\* what a parsed JSON tree can hold in place of a name: numbers, booleans,
\* lists, objects and null
OtherValues ==
    {JNull, JInt(0), JInt(5), JFloat(15), JBool(FALSE), JBool(TRUE), JArr(<<>>),
     JArr(<<Item("0", JStr(<<"A">>))>>), JObj(<<>>), JObj(<<Item("k", JNull)>>)}

Names ==
    {JStr(ExampleName)} \cup {JStr(n) : n \in BatteryNames} \cup
    {JStr(Concat(ts)) : ts \in UNION {[1..k -> NameTokens] : k \in 0..MaxTokens}}
    \cup OtherValues

InitClean ==
    /\ pc = "clean"
    /\ name \in Names
    /\ cleaned = [model |-> JNull, brand |-> JNull, battery |-> JNull, tesla |-> JNull,
               power |-> JNull]
    /\ IdleStore /\ IdleExtract /\ IdleFields /\ IdleCrawl /\ IdleWorkers /\ IdleImage

\* clean_model_name, clean_brand_name, the battery step of extract_fields,
\* get_tesla_battery_capacity and extract_engine_power_from_model_name, each
\* applied to the name
CleanNames ==
    /\ pc = "clean"
    /\ cleaned' = [model |-> clean_model_name(name), brand |-> clean_brand_name(name),
                   battery |-> BatteryOf(name),
                   tesla |-> get_tesla_battery_capacity(name),
                   power |-> extract_engine_power_from_model_name(name)]
    /\ pc' = "cleaned"
    /\ UNCHANGED <<name, storeVars, extractVars, fieldVars, crawlVars,
                   workerVars, imageVars>>

NextClean == CleanNames

SpecClean == InitClean /\ [][NextClean]_vars

-----------------------------------------------------------------------------
(* Claims about the cleaning functions, checked under SpecClean *)

\* chars holds no comma and neither starts nor ends with white space
NoCommaNoEdgeSpace(chars) ==
    /\ ~HasChar(chars, ",")
    /\ chars # <<>> => (~IsSpace(chars[1]) /\ ~IsSpace(chars[Len(chars)]))

\* C5: clean_model_name and clean_brand_name return a string with no comma and
\* no leading or trailing white space for every string input; in particular
\* clean_model_name("Model 3 Long Range (228hk), 80,0 kWh,") is exactly
\* "Model 3 Long Range".
C5_CleanedIsTrimmed ==
    (pc = "cleaned" /\ name.t = "str") =>
        /\ cleaned.model.t = "str" /\ NoCommaNoEdgeSpace(cleaned.model.s)
        /\ cleaned.brand.t = "str" /\ NoCommaNoEdgeSpace(cleaned.brand.s)
        /\ name.s = ExampleName =>
             cleaned.model.s = SubSeq(ExampleName, 1, Len(ExampleName) - 19)

-----------------------------------------------------------------------------
(* The field mapper: extract_fields *)

EmptyObj == JObj(<<>>)
EmptyArr == JArr(<<>>)
EmptyStr == JStr(<<>>)

\* x[0]: the first element of a list (list elements are keyed "0", "1", ...);
\* IndexError, KeyError or TypeError on what has no first element
Index0(x) ==
    CASE IsRaise(x) -> x
      [] x.t = "arr" -> IF x.items = <<>> THEN Raise("IndexError") ELSE x.items[1].v
      [] x.t = "obj" -> Raise("KeyError")
      [] x.t = "str" -> IF x.s = <<>> THEN Raise("IndexError") ELSE JStr(<<x.s[1]>>)
      [] OTHER -> Raise("TypeError")

\* "x and len(x) > 0" as a condition: TypeError on a truthy value without a length
NonEmpty(x) ==
    CASE IsRaise(x) -> x
      [] ~Truthy(x) -> JBool(FALSE)
      [] x.t \in {"arr", "obj", "str"} -> JBool(TRUE)
      [] OTHER -> Raise("TypeError")

\* bool(x)
PyBool(x) == IF IsRaise(x) THEN x ELSE JBool(Truthy(x))

\* where '$' matches in chars: at the end, and just before a newline that is
\* the last character
AtDollar(chars, i) ==
    \/ i = Len(chars) + 1
    \/ i = Len(chars) /\ chars[i] = "\n"

\* re.search(r'-(\d+)$', auction_url): group(1) of the leftmost match, else None
AuctionIdOf(auction_url) ==
    CASE IsRaise(auction_url) -> auction_url
      [] ~Truthy(auction_url) -> JNull
      [] auction_url.t # "str" -> Raise("TypeError")
      [] OTHER ->
           LET chars == auction_url.s
               hits == {i \in 1..Len(chars) - 1 :
                          /\ chars[i] = "-"
                          /\ RunEnd(chars, i + 1, Digits) > i + 1
                          /\ AtDollar(chars, RunEnd(chars, i + 1, Digits))}
           IN IF hits = {} THEN JNull
              ELSE LET i == CHOOSE x \in hits : \A y \in hits : x <= y
                   IN JStr(SubSeq(chars, i + 1, RunEnd(chars, i + 1, Digits) - 1))

\* sold_for = item.get("soldFor") or None, then float(sold_for) with
\* ValueError and TypeError turned into None
SoldForOf(item) ==
    LET raw == PyOr(PyGet(item, "soldFor", JNull), JNull)
    IN IF IsRaise(raw) THEN raw
       ELSE IF ~Truthy(raw) THEN JNull
       ELSE IF IsRaise(PyFloat(raw)) THEN JNull ELSE PyFloat(raw)

\* variant: the loop goes on to the end and so keeps the last truthy entry
ChosenEntryLast(entries) ==
    LET hits == {i \in 1..Len(entries) : Truthy(entries[i].v)}
    IN IF hits = {} THEN 0 ELSE CHOOSE i \in hits : \A j \in hits : j <= i

\* the entry the loop builds the record from: the first one with a truthy value
\* (falsy entries are skipped, the loop leaves at the first one processed);
\* 0 when there is none
ChosenEntry(entries) ==
    LET hits == {i \in 1..Len(entries) : Truthy(entries[i].v)}
    IN IF hits = {} THEN 0 ELSE CHOOSE i \in hits : \A j \in hits : i <= j

\* The loop body over a truthy item, statement by statement. Each group of
\* locals is a record that extends the one before it; variant is "main"
\* (main.py) or "car_crawler" (the older car_crawler.py, which leaves
\* engine_power_hp and engine_power unbound when there are no fuels, prefixes
\* the brand and keeps the search fields). A local holds the exception its
\* statement raises, if any.

\* d.get(key) or None
OrNone(d, key) == PyOr(PyGet(d, key, JNull), JNull)

\* d.get(key, {}) or {}
OrEmptyObj(d, key) == PyOr(PyGet(d, key, EmptyObj), EmptyObj)

\* process_object
Locals1(variant, store_, item) ==
    [variant |-> variant, store |-> store_, item |-> item,
     process_object |-> OrEmptyObj(item, "processObject")]

\* base_obj, location_info, properties, active_auction, winning_bid, auction_url
Locals2(e) ==
    e @@ [base_obj |-> OrEmptyObj(e.process_object, "baseObject"),
          location_info |-> OrEmptyObj(e.process_object, "locationInfo"),
          properties |-> OrEmptyObj(e.process_object, "properties"),
          active_auction |-> OrEmptyObj(e.item, "activeAuction"),
          winning_bid |-> OrEmptyObj(e.item, "winningBid"),
          auction_url |-> PyOr(PyGet(e.item, "auctionUrl", EmptyStr), EmptyStr),
          sold_for |-> SoldForOf(e.item)]

\* facility, fuels, highest_bid, auction_id, model_name, and brand before it is
\* cleaned
Locals3(e) ==
    e @@ [facility |-> OrEmptyObj(e.location_info, "facility"),
          fuels |-> PyOr(PyGet(e.properties, "fuels", EmptyArr), EmptyArr),
          highest_bid |-> PyGet(OrEmptyObj(e.active_auction, "highestBid"), "amount", JNull),
          auction_id |-> AuctionIdOf(e.auction_url),
          model_name |-> PyOr(PyGet(e.base_obj, "modelName", EmptyStr), EmptyStr),
          raw_brand |-> OrNone(e.properties, "brand")]

\* the condition "fuels and len(fuels) > 0", the tech_fuels of the authority
\* register as the branch under it reads them, the capacity in the model name,
\* brand and model_name_short
Locals4(e) ==
    e @@ [has_fuels |-> NonEmpty(e.fuels),
          tech_fuels |->
              PyOr(PyGet(OrEmptyObj(OrEmptyObj(PyGet(e.process_object, "baseObject", EmptyObj),
                                               "authorityRegisterInformation"),
                                    "generalTechSpecification"),
                         "fuels", EmptyArr), EmptyArr),
          name_capacity |-> BatteryOf(e.model_name),
          brand |-> IF IsRaise(e.raw_brand) \/ ~Truthy(e.raw_brand) THEN e.raw_brand
                    ELSE clean_brand_name(e.raw_brand),
          model_name_short |-> clean_model_name(e.model_name)]

\* fuel_code, the condition "tech_fuels and len(tech_fuels) > 0", and
\* model_name_with_brand
Locals5(e) ==
    LET in_fuels == ~IsRaise(e.has_fuels) /\ Truthy(e.has_fuels)
        prefixed == /\ e.variant = "car_crawler"
                    /\ ~IsRaise(e.brand) /\ Truthy(e.brand)
                    /\ ~IsRaise(e.model_name_short) /\ Truthy(e.model_name_short)
    IN e @@ [in_fuels |-> in_fuels,
             fuel_code |-> IF in_fuels THEN PyGet(Index0(e.fuels), "fuelCode", JNull)
                           ELSE JNull,
             has_tech |-> IF in_fuels THEN NonEmpty(e.tech_fuels) ELSE JBool(FALSE),
             model_name_with_brand |->
                 IF prefixed THEN JStr(e.brand.s \o <<" ">> \o e.model_name_short.s)
                 ELSE e.model_name_short]

\* variant: any amount counts as sold, a negative one too
IsSoldAnyAmount(sold_for) == ~IsRaise(sold_for) /\ Truthy(sold_for)

\* the condition "sold_for and sold_for > 0" of the search fields
IsSold(sold_for) == ~IsRaise(sold_for) /\ Truthy(sold_for) /\ sold_for.n > 0

\* engine_power_hp, engine_power, battery_capacity
Locals6(e) ==
    LET in_tech == ~IsRaise(e.has_tech) /\ Truthy(e.has_tech)
        unbound == IF e.variant = "main" THEN JNull ELSE Raise("UnboundLocalError")
        power(key, fallback) ==
            IF ~e.in_fuels THEN unbound
            ELSE IF IsRaise(e.fuel_code) THEN e.fuel_code
            ELSE IF IsRaise(e.has_tech) THEN e.has_tech
            ELSE IF in_tech THEN PyGet(Index0(e.tech_fuels), key, JNull)
            ELSE fallback
    IN e @@ [engine_power_hp |->
                 power("enginePowerHp", extract_engine_power_from_model_name(e.model_name)),
             engine_power |-> power("enginePower", JNull),
             battery_capacity |->
                 IF /\ e.name_capacity = JNull /\ e.brand = JStr(<<"T", "e", "s", "l", "a">>)
                    /\ ~IsRaise(e.model_name_with_brand) /\ Truthy(e.model_name_with_brand)
                 THEN get_tesla_battery_capacity(e.model_name_with_brand)
                 ELSE e.name_capacity,
             sold |-> IsSold(e.sold_for),
             electric |-> e.fuel_code = JStr(<<"E", "l", "e", "c", "t", "r", "i", "c">>)]

\* fuels[0].get(key) if fuels else None
FirstFuel(fuels, key) ==
    IF IsRaise(fuels) THEN fuels
    ELSE IF Truthy(fuels) THEN PyGet(Index0(fuels), key, JNull)
    ELSE JNull

\* the fields both files put in the record, in the order of main.py
CommonMembers(e) == <<
    Item("auctionId", e.auction_id),
    Item("closedAt", OrNone(e.item, "closedAt")),
    Item("publishedAt", OrNone(e.item, "publishedAt")),
    Item("soldFor", e.sold_for),
    Item("sellMethod", OrNone(e.item, "sellMethod")),
    Item("slug", PyOr(PyGet(e.item, "slug", EmptyStr), EmptyStr)),
    Item("auctionUrl", e.auction_url),
    Item("buyNowAmount", OrNone(e.item, "buyNowAmount")),
    Item("buyNowAvailable", PyBool(PyGet(e.item, "buyNowAvailable", JNull))),
    Item("preliminaryPrice", OrNone(e.item, "preliminaryPrice")),
    Item("isSoldByBuyNow", PyBool(PyGet(e.item, "isSoldByBuyNow", JNull))),
    Item("winningBid", OrNone(e.winning_bid, "amount")),
    Item("reservationPriceReached",
         PyBool(PyGet(e.active_auction, "reservationPriceReached", JNull))),
    Item("highestBid", PyOr(e.highest_bid, JNull)),
    Item("electricType", OrNone(e.properties, "electricType")),
    Item("odometerReading", OrNone(e.properties, "odometerReading")),
    Item("body", OrNone(e.properties, "body")),
    Item("brand", e.brand),
    Item("familyName", OrNone(e.properties, "familyName")),
    Item("registrationPlate", OrNone(e.base_obj, "registrationPlate")),
    Item("modelName", e.model_name),
    Item("modelNamePresentation", e.model_name_with_brand),
    Item("year", OrNone(e.base_obj, "year")),
    Item("facilityPostCode", OrNone(e.facility, "postCode")),
    Item("facilityCity", OrNone(e.facility, "city")),
    Item("fuelCode", e.fuel_code),
    Item("batteryCapacity", e.battery_capacity),
    Item("rangeCityWltpDrive", FirstFuel(e.fuels, "rangeCityWltpDrive")),
    Item("rangeWltpDrive", FirstFuel(e.fuels, "rangeWltpDrive")),
    Item("enginePowerHp", e.engine_power_hp),
    Item("enginePower", e.engine_power),
    Item("gearbox", OrNone(e.properties, "gearbox")) >>

\* the record literal of the file at hand: main.py adds objectViewJson and
\* base_object_type, car_crawler.py puts the search fields after brand and
\* after modelNamePresentation
Members(e, common) ==
    LET when(cond, v) == IF cond THEN v ELSE JNull
    IN IF e.variant = "main"
       THEN common \o <<
              Item("objectViewJson", PyGet(e.store, "objectView", EmptyObj)),
              Item("base_object_type", OrNone(e.base_obj, "baseObjectType")) >>
       ELSE SubSeq(common, 1, 18) \o <<
              Item("brandElectricSearch", when(e.electric /\ e.sold, e.brand)),
              Item("brandFossilSearch", when(~e.electric /\ e.sold, e.brand)) >>
            \o SubSeq(common, 19, 22) \o <<
              Item("modelNameSearch", when(e.sold, e.model_name_with_brand)),
              Item("modelNameElectricSearch",
                   when(e.electric /\ e.sold, e.model_name_with_brand)),
              Item("modelNameFossilSearch",
                   when(~e.electric /\ e.sold, e.model_name_with_brand)) >>
            \o SubSeq(common, 23, Len(common))

\* the record, or the first exception among the statements
RecordOrRaise(has_fuels, members) ==
    IF IsRaise(has_fuels) THEN has_fuels
    ELSE IF \E i \in 1..Len(members) : IsRaise(members[i].v)
    THEN members[CHOOSE i \in 1..Len(members) :
                    /\ IsRaise(members[i].v)
                    /\ \A j \in 1..(i - 1) : ~IsRaise(members[j].v)].v
    ELSE JObj(members)

\* the record literal after all the locals
RecordOf(e) == RecordOrRaise(e.has_fuels, Members(e, CommonMembers(e)))

\* one pass of the loop body over a truthy item: the record, or the exception
\* raised on the way
BuildRecord(variant, store_, item) ==
    RecordOf(Locals6(Locals5(Locals4(Locals3(Locals2(Locals1(variant, store_, item)))))))

\* extract_fields(store) of the given variant: {} when no entry is truthy
ExtractFieldsOf(variant, store_) ==
    LET store_objects == PyGet(PyGet(store_, "objectView", EmptyObj), "storeObjects", EmptyObj)
    IN IF IsRaise(store_objects) THEN store_objects
       ELSE IF store_objects.t # "obj" THEN Raise("AttributeError")
       ELSE LET i == ChosenEntry(store_objects.items)
            IN IF i = 0 THEN EmptyObj
               ELSE BuildRecord(variant, store_, store_objects.items[i].v)

\* extract_fields of main.py
extract_fields(store_) == ExtractFieldsOf("main", store_)

\* extract_fields of car_crawler.py
extract_fields_car_crawler(store_) == ExtractFieldsOf("car_crawler", store_)

-----------------------------------------------------------------------------
(* Trees handed to extract_fields *)

\* the tree with the value at path replaced by new (a path steps through keys)
RECURSIVE JPut(_, _, _)
JPut(v, path, new) ==
    IF path = <<>> THEN new
    ELSE [v EXCEPT !.items =
            [i \in 1..Len(v.items) |->
                IF v.items[i].k = Head(path)
                THEN Item(v.items[i].k, JPut(v.items[i].v, Tail(path), new))
                ELSE v.items[i]]]

\* the tree without the key at path
RECURSIVE JDel(_, _)
JDel(v, path) ==
    IF Len(path) = 1
    THEN [v EXCEPT !.items = SelectSeq(v.items, LAMBDA m : m.k # Head(path))]
    ELSE [v EXCEPT !.items =
            [i \in 1..Len(v.items) |->
                IF v.items[i].k = Head(path)
                THEN Item(v.items[i].k, JDel(v.items[i].v, Tail(path)))
                ELSE v.items[i]]]

Electric == JStr(<<"E", "l", "e", "c", "t", "r", "i", "c">>)

\* the fuels list of the authority register's technical specification
RegisterFuels ==
    JArr(<<Item("0", JObj(<<Item("enginePowerHp", JInt(200)),
                            Item("enginePower", JInt(147))>>))>>)

\* the leaf values a page can carry
Profiles == {
    [soldFor |-> JInt(100000), amount |-> JInt(5000), modelName |-> JStr(<<"X", " ", "5", "0", " ", "k", "W", "h">>),
     brand |-> JStr(<<"V", "o", "l", "v", "o">>), auctionUrl |-> JStr(<<"a", "-", "1", "2">>),
     techFuels |-> RegisterFuels, fuelCode |-> Electric],
    [soldFor |-> JStr(<<"a", "b", "c">>), amount |-> JStr(<<"a", "b", "c">>), modelName |-> JStr(<<"M", "o", "d", "e", "l", " ", "S", " ", "1", "0", "0", "D">>),
     brand |-> JStr(<<"T", "e", "s", "l", "a">>), auctionUrl |-> JStr(<<"a", "-", "1", "2">>),
     techFuels |-> RegisterFuels, fuelCode |-> Electric],
    [soldFor |-> JStr(<<"5">>), amount |-> JNull, modelName |-> JStr(<<"Y", " ", "(", "1", "5", "0", "h", "k", ")">>),
     brand |-> JNull, auctionUrl |-> JStr(<<"a">>),
     techFuels |-> RegisterFuels, fuelCode |-> Electric],
    [soldFor |-> JInt(0), amount |-> JInt(0), modelName |-> JStr(<<"Z", " ", "0", " ", "k", "W", "h">>),
     brand |-> JStr(<<"K", "i", "a", " ", ",">>), auctionUrl |-> JNull,
     techFuels |-> RegisterFuels, fuelCode |-> Electric] }

\* a complete item as the detail page carries it
FullItem(p) ==
    JObj(<<
      Item("auctionUrl", p.auctionUrl),
      Item("closedAt", JStr(<<"1", "Z">>)),
      Item("soldFor", p.soldFor),
      Item("buyNowAmount", p.amount),
      Item("preliminaryPrice", p.amount),
      Item("buyNowAvailable", JBool(TRUE)),
      Item("processObject", JObj(<<
        Item("baseObject", JObj(<<
          Item("modelName", p.modelName),
          Item("year", JInt(2020)),
          Item("authorityRegisterInformation", JObj(<<
            Item("generalTechSpecification", JObj(<<
              Item("fuels", p.techFuels) >>)) >>)) >>)),
        Item("locationInfo", JObj(<<
          Item("facility", JObj(<<Item("city", JStr(<<"L", "u", "n", "d">>))>>)) >>)),
        Item("properties", JObj(<<
          Item("brand", p.brand),
          Item("gearbox", JStr(<<"A", "u", "t", "o">>)),
          Item("fuels", JArr(<<
            Item("0", JObj(<<Item("fuelCode", p.fuelCode),
                             Item("rangeWltpDrive", JInt(400))>>)) >>)) >>)) >>)),
      Item("activeAuction", JObj(<<
        Item("highestBid", JObj(<<Item("amount", p.amount)>>)),
        Item("reservationPriceReached", JBool(TRUE)) >>)),
      Item("winningBid", JObj(<<Item("amount", p.amount)>>)) >>)

\* a second, different item
OtherItem == JObj(<<Item("auctionUrl", JStr(<<"b", "-", "3", "4">>))>>)

\* the intermediate nodes of the lookup paths, as paths from the root; "k1" is
\* the key of the first full item
InItem(path) == <<"objectView", "storeObjects", "k1">> \o path
Nodes == {
    <<"objectView">>,
    <<"objectView", "storeObjects">>,
    InItem(<<"processObject">>),
    InItem(<<"processObject", "baseObject">>),
    InItem(<<"processObject", "baseObject", "authorityRegisterInformation">>),
    InItem(<<"processObject", "baseObject", "authorityRegisterInformation",
             "generalTechSpecification">>),
    InItem(<<"processObject", "baseObject", "authorityRegisterInformation",
             "generalTechSpecification", "fuels">>),
    InItem(<<"processObject", "baseObject", "authorityRegisterInformation",
             "generalTechSpecification", "fuels", "0">>),
    InItem(<<"processObject", "locationInfo">>),
    InItem(<<"processObject", "locationInfo", "facility">>),
    InItem(<<"processObject", "properties">>),
    InItem(<<"processObject", "properties", "fuels">>),
    InItem(<<"processObject", "properties", "fuels", "0">>),
    InItem(<<"activeAuction">>),
    InItem(<<"activeAuction", "highestBid">>),
    InItem(<<"winningBid">>) }

NoDamage == [node |-> <<>>, kind |-> "none"]
Damages == {NoDamage} \cup [node : Nodes, kind : {"absent", "null", "empty"}]

\* the empty value of the node's own kind: [] for the lists, {} otherwise
EmptyOf(node) == IF node[Len(node)] = "fuels" THEN EmptyArr ELSE EmptyObj

Damaged(t, d) ==
    CASE d.kind = "none" -> t
      [] d.kind = "absent" -> JDel(t, d.node)
      [] d.kind = "null" -> JPut(t, d.node, JNull)
      [] d.kind = "empty" -> JPut(t, d.node, EmptyOf(d.node))

\* bound: how many entries storeObjects holds
MaxEntries == 2

EntryKinds == {"null", "empty", "full", "other"}
EntryLists == UNION {[1..k -> EntryKinds] : k \in 0..MaxEntries}

EntryValue(kind, p) ==
    CASE kind = "null" -> JNull
      [] kind = "empty" -> EmptyObj
      [] kind = "full" -> FullItem(p)
      [] kind = "other" -> OtherItem

\* entries keyed k1, k2, ... in insertion order
EntryKey(i) == <<"k1", "k2", "k3", "k4">>[i]

Tree(entries, p, d) ==
    Damaged(JObj(<<Item("objectView", JObj(<<
              Item("storeObjects",
                   JObj([i \in 1..Len(entries) |->
                           Item(EntryKey(i), EntryValue(entries[i], p))])) >>)) >>), d)

\* brands and model names around the Tesla table: the example trim with its
\* prefix, a trim with a capacity in the name, an unknown trim, a trim with
\* "Tesla " inside and one with a comma at its end, and brands that only
\* resemble "Tesla"
TeslaProfiles ==
    {[soldFor |-> JInt(100000), amount |-> JNull, modelName |-> JStr(m), brand |-> JStr(b),
      auctionUrl |-> JStr(<<"a", "-", "1", "2">>), techFuels |-> RegisterFuels, fuelCode |-> Electric] :
        m \in { <<"T", "e", "s", "l", "a", " ", "M", "o", "d", "e", "l", " ", "S", " ", "1", "0", "0", "D">>,
                <<"M", "o", "d", "e", "l", " ", "S", " ", "6", "0", " ", "7", "5", " ", "k", "W", "h">>,
                <<"M", "o", "d", "e", "l", " ", "Z">>,
                <<"M", "o", "d", "e", "l", " ", "T", "e", "s", "l", "a", " ", "S", " ", "1", "0", "0", "D">>,
                <<"M", "o", "d", "e", "l", " ", "S", " ", "1", "0", "0", "D", ",">> },
        b \in { <<"T", "e", "s", "l", "a">>, <<" ", "T", "e", "s", "l", "a", ",">>, <<"V", "o", "l", "v", "o">> }}

\* an item whose register holds no fuels and whose model name carries the
\* horsepower, and what can be wrong with its properties.fuels
UnregisteredProfile ==
    [soldFor |-> JInt(100000), amount |-> JNull,
     modelName |-> JStr(<<"Y", " ", "(", "1", "5", "0", "h", "k", ")">>),
     brand |-> JStr(<<"V", "o", "l", "v", "o">>),
     auctionUrl |-> JStr(<<"a", "-", "1", "2">>), techFuels |-> EmptyArr, fuelCode |-> Electric]
FuelsDamages ==
    {NoDamage} \cup [node : {InItem(<<"processObject", "properties", "fuels">>)},
                     kind : {"absent", "null", "empty"}]

\* items with a fuel code that is not "Electric", or is so in lower case only,
\* sold for a positive, a negative and no amount
FuelProfiles ==
    {[soldFor |-> a, amount |-> JNull, modelName |-> JStr(<<"V", "6", "0">>),
      brand |-> JStr(<<"V", "o", "l", "v", "o">>),
      auctionUrl |-> JStr(<<"a", "-", "1", "2">>), techFuels |-> RegisterFuels,
      fuelCode |-> f] :
        a \in {JInt(100000), JInt(-5), JNull},
        f \in {JStr(<<"D", "i", "e", "s", "e", "l">>),
                JStr(<<"e", "l", "e", "c", "t", "r", "i", "c">>), JNull}}

\* the auction URLs of UrlProfiles: with and without a digit suffix after the
\* last '-', with a newline after the suffix, and a number
AuctionUrls ==
    {JStr(<<"a", "-", "1", "-", "2", "3">>), JStr(<<"a", "-">>), JStr(<<"1", "2">>),
     JStr(<<"a", "-", "1", "2", "b">>), JStr(<<"-", "7">>), JStr(<<"a", "-", "1", "2", "\n">>),
     JStr(<<"a", "-", "1", "2", "\n", "\n">>), JStr(<<"a", "-", "1", "2", " ">>), JInt(5)}

UrlProfiles ==
    {[soldFor |-> JInt(100000), amount |-> JNull, modelName |-> JStr(<<"V", "6", "0">>),
      brand |-> JStr(<<"V", "o", "l", "v", "o">>), auctionUrl |-> u,
      techFuels |-> RegisterFuels, fuelCode |-> Electric] : u \in AuctionUrls}

\* a damaged node lies in the first entry, which then has to be a full item;
\* the other profiles come as one undamaged item
Shapes ==
    {sh \in [entries : EntryLists, profile : Profiles, damage : Damages] :
        Len(sh.damage.node) > 2 => (sh.entries # <<>> /\ sh.entries[1] = "full")}
    \cup [entries : {<<"full">>}, profile : TeslaProfiles, damage : {NoDamage}]
    \cup [entries : {<<"full">>}, profile : {UnregisteredProfile}, damage : FuelsDamages]
    \cup [entries : {<<"full">>}, profile : FuelProfiles \cup UrlProfiles, damage : {NoDamage}]

InitFields ==
    /\ pc = "fields"
    /\ \E sh \in Shapes :
         /\ shape = sh
         /\ tree = Tree(sh.entries, sh.profile, sh.damage)
    /\ fields = [main |-> JNull, car_crawler |-> JNull]
    /\ IdleStore /\ IdleExtract /\ IdleClean /\ IdleCrawl /\ IdleWorkers /\ IdleImage

\* extract_fields(store) of main.py and of car_crawler.py on the same tree
ExtractFields ==
    /\ pc = "fields"
    /\ fields' = [main |-> extract_fields(tree),
                  car_crawler |-> extract_fields_car_crawler(tree)]
    /\ pc' = "mapped"
    /\ UNCHANGED <<tree, shape, storeVars, extractVars, cleanVars, crawlVars,
                   workerVars, imageVars>>


-----------------------------------------------------------------------------
(* Claims about extract_fields, checked under SpecFields *)

\* the entries of objectView.storeObjects of the tree, when it is a map
MapReadable ==
    /\ tree.t = "obj"
    /\ PyGet(tree, "objectView", JNull).t = "obj"
    /\ PyGet(PyGet(tree, "objectView", JNull), "storeObjects", JNull).t = "obj"
StoreEntries == PyGet(PyGet(tree, "objectView", JNull), "storeObjects", JNull).items

\* the auctionUrl a record built from entry v carries; None for what is no item
UrlOf(v) == IF v.t = "obj" THEN PyOr(PyGet(v, "auctionUrl", EmptyStr), EmptyStr) ELSE JNull

Built(rec) == ~IsRaise(rec) /\ rec.t = "obj" /\ rec # EmptyObj

\* C6: costPerKwh of a produced record equals soldFor / batteryCapacity when both
\* are present and batteryCapacity > 0 (100000 and 50.0 give 2000.0), and is
\* null otherwise.
C6_CostPerKwh ==
    (pc = "mapped" /\ Built(fields.main)) =>
        LET sold == PyGet(fields.main, "soldFor", JNull)
            cap == PyGet(fields.main, "batteryCapacity", JNull)
            cost == PyGet(fields.main, "costPerKwh", JNull)
        IN IF sold # JNull /\ cap # JNull /\ cap.n > 0
           THEN cost.t = "float" /\ cost.n * cap.n = sold.n * 10
           ELSE cost = JNull

\* C8 as stated: the record is built from the first key/value pair of
\* objectView.storeObjects, and the result is empty only when that map is empty.
C8_FirstPairOnly ==
    (pc = "mapped" /\ MapReadable /\ ~IsRaise(fields.main)) =>
        /\ StoreEntries # <<>> =>
             (Built(fields.main) /\
              PyGet(fields.main, "auctionUrl", JNull) = UrlOf(StoreEntries[1].v))
        /\ fields.main = EmptyObj => StoreEntries = <<>>

\* C8: extract_fields builds its single record from the first entry of
\* objectView.storeObjects whose value is non-empty (null and empty entries
\* before it are skipped) and from no other entry; it returns the empty result
\* exactly when the map holds no non-empty value.
C8_FirstNonEmptyEntryOnly ==
    (pc = "mapped" /\ MapReadable) =>
        LET some == {i \in 1..Len(StoreEntries) : Truthy(StoreEntries[i].v)}
        IN IF some = {} THEN fields.main = EmptyObj
           ELSE \A i \in some :
                  ((\A j \in some : i <= j) /\ ~IsRaise(fields.main)) =>
                      /\ Built(fields.main)
                      /\ PyGet(fields.main, "auctionUrl", JNull) = UrlOf(StoreEntries[i].v)

\* a null entry comes first, a different item after it, and the record is the
\* second one's
C8_Witness ==
    /\ pc = "mapped" /\ MapReadable /\ Len(StoreEntries) = 2
    /\ StoreEntries[1].v = JNull /\ Truthy(StoreEntries[2].v)
    /\ Built(fields.main)
    /\ PyGet(fields.main, "auctionUrl", JNull) = UrlOf(StoreEntries[2].v)
    /\ UrlOf(StoreEntries[2].v) # EmptyStr

\* C9: extract_fields never raises for a parsed tree in which an intermediate
\* node on its lookup paths is absent, null or empty.
C9_NeverRaises ==
    (pc = "mapped" /\ shape.damage.kind \in {"absent", "null", "empty"}) =>
        ~IsRaise(fields.main) /\ ~IsRaise(fields.car_crawler)

AmountFields == {"soldFor", "buyNowAmount", "preliminaryPrice", "winningBid", "highestBid"}

\* C10: in every record produced by extract_fields each of soldFor,
\* buyNowAmount, preliminaryPrice, winningBid and highestBid is null or a number.
C10_AmountsNumericOrNull ==
    (pc = "mapped" /\ Built(fields.main)) =>
        \A f \in AmountFields : PyGet(fields.main, f, JNull).t \in {"null", "int", "float"}

-----------------------------------------------------------------------------
(* The crawl: process_url_single under crawl_kvd *)

\* how many attempts process_url_single makes for one URL
MAX_RETRIES == 6

\* variant: only the permanent redirects are skipped
SkipStatusesPermanent == {301, 308}

\* the status codes on which process_url_single returns at once
SkipStatuses == {301, 302, 303, 307, 308}

\* the first previewImage of the store entries, as the loop over
\* store_data.get('objectView', {}).get('storeObjects', {}).items() finds it
PreviewImageOf(store_data) ==
    LET store_objects ==
            PyGet(PyGet(store_data, "objectView", EmptyObj), "storeObjects", EmptyObj)
    IN IF IsRaise(store_objects) THEN store_objects
       ELSE IF store_objects.t # "obj" THEN Raise("AttributeError")
       ELSE LET entries == store_objects.items
                preview(i) == PyGet(entries[i].v, "previewImage", JNull)
                stops == {i \in 1..Len(entries) :
                            Truthy(entries[i].v) /\ Truthy(preview(i))}
            IN IF stops = {} THEN JNull
               ELSE preview(CHOOSE i \in stops : \A j \in stops : i <= j)

\* bound: how many URLs a crawl goes through
MaxUrls == 2

Statuses == {200, 404} \cup {301, 302, 303, 307, 308}
Fetches == {NoFetch} \cup [ok : {TRUE}, code : Statuses]

\* a store of one entry
OneEntry(item) ==
    JObj(<<Item("objectView", JObj(<<Item("storeObjects", JObj(<<Item("k1", item)>>))>>))>>)

\* the stores a page can carry: an item, an item with a preview image, an item
\* without auction URL, a null entry, an item whose first fuel is null, and a
\* null objectView
CrawlTrees ==
    {OneEntry(OtherItem),
     OneEntry(JObj(<<Item("slug", JStr(<<"s">>))>>)),
     OneEntry(PySet(OtherItem, "previewImage", JStr(<<"p">>))),
     OneEntry(JNull),
     OneEntry(JObj(<<Item("processObject", JObj(<<Item("properties", JObj(<<
         Item("fuels", JArr(<<Item("0", JNull)>>)) >>)) >>)) >>)),
     JObj(<<Item("objectView", JNull), Item("x", JNull)>>)}

\* what extract_fields(store_data) and the previewImage loop give on each store
\* a page can carry
StoreTable ==
    [t \in CrawlTrees |-> [record |-> extract_fields(t), preview |-> PreviewImageOf(t)]]

\* the calls one pass of the attempt loop has made, the except branch it ended
\* in ("" when it ended in none), and what it leaves behind
Pass(returned, raised, extracts, maps, record) ==
    [returned |-> returned, raised |-> raised, extracts |-> extracts, maps |-> maps,
     record |-> record]

\* the pass from the previewImage loop on, for a truthy store_data: found holds
\* what the loop and extract_fields(store_data) give
after_scan(extracts, found) ==
    IF IsRaise(found.preview) THEN Pass(FALSE, "Exception", extracts, 0, NoRecord)
    ELSE IF IsRaise(found.record) THEN Pass(FALSE, "Exception", extracts, 1, NoRecord)
    ELSE IF ~Truthy(found.record) THEN Pass(FALSE, "", extracts, 1, NoRecord)
    ELSE Pass(FALSE, "", extracts, 1, found)

\* what one pass of the attempt loop does up to the call of write_to_supabase,
\* given the answer of the no-follow fetch and the page of the second fetch:
\* whether the function returns, the calls made, and the record to store with
\* the preview image found for it
process_attempt(first, page) ==
    IF ~first.ok THEN Pass(FALSE, "RequestException", 0, 0, NoRecord)
    ELSE IF first.code \in SkipStatuses THEN Pass(TRUE, "", 0, 0, NoRecord)
    ELSE IF ~page.ok THEN Pass(FALSE, "RequestException", 0, 0, NoRecord)
    ELSE IF ~Truthy(page.store)
    THEN Pass(FALSE, "", IF page.earlier THEN 1 ELSE 0, 0, NoRecord)
    ELSE after_scan((IF page.earlier THEN 1 ELSE 0) + 1, StoreTable[page.store])

\* variant: the same pause after every failed attempt
backoff_fixed(attempt_) == 5

\* the seconds slept in an except branch of the pass with index attempt_
backoff_seconds(attempt_) == 5 * (attempt_ + 1)

\* a meta tag of the page: its property, name and data-react-helmet
\* attributes and its content attribute (null when the tag has none)
MetaTag(property, name_, helmet, content) ==
    [property |-> property, name |-> name_, helmet |-> helmet, content |-> content]

\* what detail_soup.find gives when no tag matches
NoTag == MetaTag("", "", FALSE, JNull)

\* 'imgix.net' in meta.get('content', '')
HasCdnHost(tag) ==
    /\ tag.content.t = "str"
    /\ \E i \in 1..Len(tag.content.s) :
          i + 8 <= Len(tag.content.s)
          /\ SubSeq(tag.content.s, i, i + 8) = <<"i", "m", "g", "i", "x", ".", "n", "e", "t">>

\* the tags that the lookup of a strategy selects
Selects(strategy, tag) ==
    CASE strategy = "meta_og_image" -> tag.property = "og:image"
      [] strategy = "meta_react_helmet" -> tag.property = "og:image" /\ tag.helmet
      [] strategy = "meta_name_og_image" -> tag.name = "og:image"
      [] strategy = "meta_imgix_net" -> HasCdnHost(tag)

\* detail_soup.find('meta', ...) of a strategy: the first tag of the page that
\* its lookup selects
FirstMeta(metas, strategy) ==
    LET hits == {i \in 1..Len(metas) : Selects(strategy, metas[i])}
    IN IF hits = {} THEN NoTag
       ELSE metas[CHOOSE i \in hits : \A j \in hits : i <= j]

\* variant: the tag named og:image is asked before the tags with the property
ImageOfNameFirst(preview, metas) ==
    IF Truthy(preview)
    THEN [url |-> preview, source |-> JStr(<<"s", "t", "o", "r", "e", "_", "d", "a", "t", "a", "_", "p", "r", "e", "v", "i", "e", "w", "_", "i", "m", "a", "g", "e">>)]
    ELSE IF Truthy(FirstMeta(metas, "meta_name_og_image").content)
    THEN [url |-> FirstMeta(metas, "meta_name_og_image").content, source |-> JStr(<<"m", "e", "t", "a", "_", "n", "a", "m", "e", "_", "o", "g", "_", "i", "m", "a", "g", "e">>)]
    ELSE IF Truthy(FirstMeta(metas, "meta_og_image").content)
    THEN [url |-> FirstMeta(metas, "meta_og_image").content, source |-> JStr(<<"m", "e", "t", "a", "_", "o", "g", "_", "i", "m", "a", "g", "e">>)]
    ELSE IF Truthy(FirstMeta(metas, "meta_react_helmet").content)
    THEN [url |-> FirstMeta(metas, "meta_react_helmet").content, source |-> JStr(<<"m", "e", "t", "a", "_", "r", "e", "a", "c", "t", "_", "h", "e", "l", "m", "e", "t">>)]
    ELSE IF FirstMeta(metas, "meta_imgix_net") # NoTag
    THEN [url |-> FirstMeta(metas, "meta_imgix_net").content, source |-> JStr(<<"m", "e", "t", "a", "_", "i", "m", "g", "i", "x", "_", "n", "e", "t">>)]
    ELSE [url |-> JNull, source |-> JNull]

\* main_image_url and image_source: the preview image of the store, else the
\* first meta tag with property og:image, else the first such tag that also
\* has data-react-helmet="true", else the first tag named og:image, each if it
\* has a content, else the first meta tag whose content holds imgix.net
ImageOf(preview, metas) ==
    IF Truthy(preview)
    THEN [url |-> preview, source |-> JStr(<<"s", "t", "o", "r", "e", "_", "d", "a", "t", "a", "_", "p", "r", "e", "v", "i", "e", "w", "_", "i", "m", "a", "g", "e">>)]
    ELSE IF Truthy(FirstMeta(metas, "meta_og_image").content)
    THEN [url |-> FirstMeta(metas, "meta_og_image").content, source |-> JStr(<<"m", "e", "t", "a", "_", "o", "g", "_", "i", "m", "a", "g", "e">>)]
    ELSE IF Truthy(FirstMeta(metas, "meta_react_helmet").content)
    THEN [url |-> FirstMeta(metas, "meta_react_helmet").content, source |-> JStr(<<"m", "e", "t", "a", "_", "r", "e", "a", "c", "t", "_", "h", "e", "l", "m", "e", "t">>)]
    ELSE IF Truthy(FirstMeta(metas, "meta_name_og_image").content)
    THEN [url |-> FirstMeta(metas, "meta_name_og_image").content, source |-> JStr(<<"m", "e", "t", "a", "_", "n", "a", "m", "e", "_", "o", "g", "_", "i", "m", "a", "g", "e">>)]
    ELSE IF FirstMeta(metas, "meta_imgix_net") # NoTag
    THEN [url |-> FirstMeta(metas, "meta_imgix_net").content, source |-> JStr(<<"m", "e", "t", "a", "_", "i", "m", "g", "i", "x", "_", "n", "e", "t">>)]
    ELSE [url |-> JNull, source |-> JNull]

\* a fetched page: whether an earlier script mentions storeObjects and yields
\* nothing, then the store of the first script that yields one, if any
Pages ==
    {[ok |-> FALSE, earlier |-> FALSE, store |-> JNull]} \cup
    [ok : {TRUE}, earlier : BOOLEAN, store : {JNull} \cup CrawlTrees]

\* the second fetch is made only when the no-follow fetch answered and did not
\* redirect
PagesAfter(first) ==
    IF first.ok /\ first.code \notin SkipStatuses THEN Pages
    ELSE {[ok |-> FALSE, earlier |-> FALSE, store |-> JNull]}

\* the meta tags of a page of the crawl: none, or one og:image tag
Metas == {<<>>, <<MetaTag("og:image", "", FALSE, JStr(<<"i">>))>>}

-----------------------------------------------------------------------------
(* handle_request and crawl_kvd: the HTTP surface and the loop over the URLs *)

\* seq[a:b] of Python for a >= 0: a negative b counts from the end
PySlice(seq, a, b) ==
    LET lo == IF a > Len(seq) THEN Len(seq) ELSE a
        hi == IF b < 0 THEN (IF b + Len(seq) < 0 THEN 0 ELSE b + Len(seq))
              ELSE IF b > Len(seq) THEN Len(seq) ELSE b
    IN IF hi <= lo THEN <<>> ELSE SubSeq(seq, lo + 1, hi)

Max(a, b) == IF a >= b THEN a ELSE b
Min(a, b) == IF a <= b THEN a ELSE b

\* variant: the start count is taken as a 0-based index
StartIndexZeroBased(s) == Max(0, s)

\* start_idx of crawl_kvd
StartIndex(s) == Max(0, s - 1)

\* the range selection of crawl_kvd on the URLs of the listing: the URLs left,
\* or the exception int() raises
SelectRange(urls, start, end) ==
    IF start.t # "null" /\ end.t # "null"
    THEN IF IsRaise(PyInt(start)) THEN [raised |-> PyInt(start), urls |-> <<>>]
         ELSE IF IsRaise(PyInt(end)) THEN [raised |-> PyInt(end), urls |-> <<>>]
         ELSE [raised |-> JNull,
               urls |-> PySlice(urls, StartIndex(PyInt(start).n),
                                Min(PyInt(end).n, Len(urls)))]
    ELSE [raised |-> JNull, urls |-> urls]

\* start_count and end_count as handle_request reads them from the JSON body
RequestCounts(request_json) ==
    IF Truthy(request_json)
    THEN [start |-> PyGet(request_json, "startAuctionCrawlCount", JNull),
          end |-> PyGet(request_json, "endAuctionCrawlCount", JNull)]
    ELSE [start |-> JNull, end |-> JNull]

\* str(e), by the kind of the exception
StrOf(e) == JStr(e.s)

\* the answers of handle_request: a payload and an HTTP status
Reply(payload, code) == [payload |-> payload, code |-> code]
NoReply == Reply(JNull, 0)
Healthy ==
    Reply(JObj(<< Item("status", JStr(<<"healthy">>)),
                  Item("message", JStr(<<"Car crawler service is running. ",
                                         "Use POST to trigger the crawler.">>)),
                  Item("usage", JStr(<<"Send a POST request with 'startAuctionCrawlCount' ",
                                       "and 'endAuctionCrawlCount' in JSON body ",
                                       "(1-based inclusive)">>)) >>), 200)

\* variant: the count of the reply is the number of records stored, here none
SuccessNoneCounted(urls) ==
    Reply(JObj(<< Item("status", JStr(<<"success">>)),
                  Item("processed_urls", JInt(0)) >>), 200)

\* what crawl_kvd returns after the loop, as handle_request passes it on
Success(urls) ==
    Reply(JObj(<< Item("status", JStr(<<"success">>)),
                  Item("processed_urls", JInt(Len(urls))) >>), 200)
\* what crawl_kvd returns from its except branch, as handle_request passes it on
CrawlError(e) ==
    Reply(JObj(<< Item("status", JStr(<<"error">>)), Item("error", StrOf(e)) >>), 200)
\* the except branch of handle_request
HandlerError(e) == Reply(JObj(<< Item("error", StrOf(e)) >>), 500)

\* handle_request up to the first call of process_url_single: the reply, if the
\* request ends there, and the URLs (listing positions) to go through
StartCrawl(counts_, page) ==
    IF IsRaise(counts_.start) THEN [reply |-> HandlerError(counts_.start), urls |-> <<>>]
    ELSE IF ~page.ok
    THEN [reply |-> CrawlError(Raise("RequestException")), urls |-> <<>>]
    ELSE LET sel == SelectRange([i \in 1..page.links |-> i], counts_.start, counts_.end)
         IN IF IsRaise(sel.raised) THEN [reply |-> CrawlError(sel.raised), urls |-> <<>>]
            ELSE IF sel.urls = <<>> THEN [reply |-> Success(<<>>), urls |-> <<>>]
            ELSE [reply |-> NoReply, urls |-> sel.urls]

\* the values a request can carry as a count
CountValues == {JNull, JStr(<<"x">>), JStr(<<"2">>)} \cup {JInt(n) : n \in -1..MaxUrls + 1}

\* the JSON bodies of a POST: none, an empty object, a list, and objects with
\* one or both counts
JsonBodies ==
    {JNull, JObj(<<>>), JArr(<<Item("0", JInt(1))>>)}
    \cup {JObj(<<Item("startAuctionCrawlCount", s)>>) : s \in CountValues}
    \cup {JObj(<<Item("startAuctionCrawlCount", s), Item("endAuctionCrawlCount", e)>>) :
            s \in CountValues, e \in CountValues}

NoRequest == [method |-> "", json |-> JNull]
Requests == {[method |-> "GET", json |-> JNull]} \cup [method : {"POST"}, json : JsonBodies]

\* the listing page: the fetch raises, or the page holds so many auction links
Listings == {[ok |-> FALSE, links |-> 0]} \cup [ok : {TRUE}, links : 0..MaxUrls + 1]

NoListing == [ok |-> FALSE, links |-> 0]
NoBackoff == [raised |-> "", seconds |-> 0]

InitCrawl ==
    /\ pc = "crawl"
    /\ request \in Requests
    /\ listing \in Listings
    /\ request.method = "POST"
          => Len(StartCrawl(RequestCounts(request.json), listing).urls) <= MaxUrls
    /\ phase = "requested"
    /\ detail_urls = <<>> /\ processed = <<>> /\ response = NoReply
    /\ total = 0 /\ urlIdx = 0 /\ attempt = 0
    /\ status = NoFetch /\ pending = NoRecord /\ counts = NoCounts
    /\ backoff = NoBackoff /\ ended = ""
    /\ IdleStore /\ IdleExtract /\ IdleClean /\ IdleFields /\ IdleWorkers /\ IdleImage

\* handle_request takes the request: a GET is answered at once; a POST is
\* answered at once when reading the body or crawl_kvd raises before the loop
\* or when no URL is left, and otherwise process_url_single is called for the
\* first URL
HandleRequest ==
    /\ pc = "crawl" /\ phase = "requested"
    /\ request' = NoRequest
    /\ IF request.method = "GET"
       THEN /\ response' = Healthy
            /\ phase' = "finished"
            /\ UNCHANGED <<listing, detail_urls, processed, total, urlIdx>>
       ELSE \E r \in {StartCrawl(RequestCounts(request.json), listing)} :
              /\ listing' = NoListing
              /\ response' = r.reply
              /\ detail_urls' = r.urls
              /\ total' = Len(r.urls)
              /\ IF r.urls = <<>>
                 THEN phase' = "finished" /\ UNCHANGED <<processed, urlIdx>>
                 ELSE /\ phase' = "attempting"
                      /\ urlIdx' = 1
                      /\ processed' = <<r.urls[1]>>
    /\ UNCHANGED <<pc, attempt, status, pending, counts, backoff, ended, storeVars,
                   extractVars, cleanVars, fieldVars,
                   workerVars, imageVars>>

\* one pass of the attempt loop of process_url_single, up to the call of
\* write_to_supabase
Attempt ==
    /\ pc = "crawl" /\ phase = "attempting" /\ attempt < MAX_RETRIES
    /\ \E first \in Fetches :
         \E r \in {process_attempt(first, page) : page \in PagesAfter(first)} :
            /\ status' = first
            /\ counts' = [counts EXCEPT !.extracts = @ + r.extracts, !.maps = @ + r.maps]
            /\ pending' = r.record
            /\ backoff' = [raised |-> r.raised,
                           seconds |-> IF r.raised # "" THEN backoff_seconds(attempt) ELSE 0]
            /\ phase' = IF r.record # NoRecord THEN "storing"
                        ELSE IF r.returned THEN "returned"
                        ELSE IF attempt + 1 = MAX_RETRIES THEN "exhausted"
                        ELSE "attempting"
            /\ ended' = IF r.record # NoRecord THEN ""
                        ELSE IF r.returned THEN "redirect"
                        ELSE IF attempt + 1 = MAX_RETRIES THEN "exhausted"
                        ELSE ""
    /\ attempt' = attempt + 1
    /\ UNCHANGED <<pc, total, urlIdx, request, listing, detail_urls, processed, response,
                   storeVars, extractVars, cleanVars, fieldVars,
                   workerVars, imageVars>>

\* variant: a write that ended in an error sends the loop into another attempt
AfterWriteRetriesOnError(outcome) ==
    IF outcome = "error" THEN "attempting" ELSE "returned"

\* variant: a record that the guard of write_to_supabase skipped sends the loop
\* into another attempt
AfterWriteRetriesOnSkip(outcome) ==
    IF outcome = "skipped" THEN "attempting" ELSE "returned"

\* where process_url_single stands after write_to_supabase has returned: the
\* "return" that follows the call, whatever the call did
AfterWrite(outcome) == "returned"

\* what the crawl keeps of a call of write_to_supabase: how far it got
CallSummary(w) ==
    [NoCall EXCEPT !.outcome = w.outcome, !.connects = w.connects, !.reads = w.reads,
                   !.writes = w.writes, !.branch = w.branch, !.committed = w.committed]

\* the rest of the pass of process_url_single on the page that carries the
\* tree: the previewImage loop, the image fields, and write_to_supabase(record)
\* when the record is truthy
HandOver ==
    /\ pc = "mapped"
    /\ \E p \in {after_scan(1, [record |-> fields.main, preview |-> PreviewImageOf(tree)])} :
          IF p.record = NoRecord
          THEN UNCHANGED <<store, last>>
          ELSE \E image \in {ImageOf(p.record.preview, <<>>)} :
                 \E w \in {write_to_supabase(PySet(PySet(p.record.record, "mainImageUrl", image.url), "imageSource", image.source), store, fail) : fail \in FailPoints} :
                    /\ store' = w.after
                    /\ last' = CallSummary(w)
    /\ pc' = "handed"
    /\ UNCHANGED <<tree, shape, fields, calls, prev, extractVars, cleanVars, crawlVars,
                   workerVars, imageVars>>

NextFields == ExtractFields \/ HandOver

SpecFields == InitFields /\ [][NextFields]_vars

\* the rest of that pass: the image fields are set, write_to_supabase(record) is
\* called and process_url_single returns
StoreRecord ==
    /\ pc = "crawl" /\ phase = "storing"
    /\ \E image \in {ImageOf(pending.preview, metas) : metas \in Metas} :
           \E w \in {write_to_supabase(
                         PySet(PySet(pending.record, "mainImageUrl", image.url),
                               "imageSource", image.source), store, fail) :
                     fail \in FailPoints} :
              /\ store' = w.after
              /\ ended' = w.outcome
              /\ last' = CallSummary(w)
              /\ phase' = AfterWrite(w.outcome)
    /\ counts' = [counts EXCEPT !.writes = @ + 1]
    /\ pending' = NoRecord
    /\ UNCHANGED <<pc, total, urlIdx, attempt, status, backoff, request, listing, detail_urls,
                   processed, response, calls, prev, extractVars, cleanVars, fieldVars,
                   workerVars, imageVars>>

\* crawl_kvd goes on to the next URL of the listing; what was kept of the URL
\* before it is dropped
NextUrl ==
    /\ pc = "crawl" /\ phase \in {"returned", "exhausted"} /\ urlIdx < total
    /\ urlIdx' = urlIdx + 1
    /\ processed' = Append(processed, detail_urls[urlIdx + 1])
    /\ attempt' = 0 /\ phase' = "attempting"
    /\ status' = NoFetch /\ counts' = NoCounts /\ backoff' = NoBackoff /\ ended' = ""
    /\ last' = NoCall
    /\ UNCHANGED pending
    /\ UNCHANGED <<pc, total, request, listing, detail_urls, response, store, calls, prev,
                   extractVars, cleanVars, fieldVars,
                   workerVars, imageVars>>

\* crawl_kvd returns after the last URL and handle_request answers
FinishCrawl ==
    /\ pc = "crawl" /\ phase \in {"returned", "exhausted"} /\ urlIdx = total
    /\ phase' = "finished"
    /\ response' = Success(detail_urls)
    /\ UNCHANGED <<pc, total, urlIdx, attempt, status, pending, counts, backoff, ended,
                   request, listing, detail_urls, processed, storeVars, extractVars,
                   cleanVars, fieldVars,
                   workerVars, imageVars>>

NextCrawl == HandleRequest \/ Attempt \/ StoreRecord \/ NextUrl \/ FinishCrawl

SpecCrawl == InitCrawl /\ [][NextCrawl]_vars

-----------------------------------------------------------------------------
(* process_url_single on its own: a crawl of a listing that holds one URL *)

InitSingle ==
    /\ InitCrawl
    /\ request = [method |-> "POST", json |-> JNull]
    /\ listing = [ok |-> TRUE, links |-> 1]

NextSingle == HandleRequest \/ Attempt \/ StoreRecord \/ FinishCrawl

SpecSingle == InitSingle /\ [][NextSingle]_vars

\* when StoreRecord can be taken: a call of write_to_supabase always ends
StoreRecordEnabled == pc = "crawl" /\ phase = "storing"

\* the single thread of the service keeps running: a step that can be taken is
\* taken (every fetch has a timeout, every sleep is finite, every database call
\* ends).  The last conjunct is WF_vars(StoreRecord) with ENABLED written out.
SpecSingleFair ==
    /\ SpecSingle
    /\ WF_vars(HandleRequest \/ FinishCrawl)
    /\ WF_vars(Attempt)
    /\ ([]<>~StoreRecordEnabled \/ []<><<StoreRecord>>_vars)

-----------------------------------------------------------------------------
(* Claims about the crawl, checked under SpecCrawl *)

Redirected(st) == st.ok /\ st.code \in {301, 302, 303, 307, 308}

\* C7 as stated: once the no-follow fetch of a URL has answered with a redirect,
\* extract_store_objects, extract_fields and write_to_supabase have never been
\* called for that URL.
C7_NoCallForRedirectedUrl ==
    (pc = "crawl" /\ phase = "returned" /\ Redirected(status)) => counts = NoCounts

\* C7: when the no-follow fetch of a detail URL returns a redirect status,
\* process_url_single returns on that attempt: the attempt calls none of
\* extract_store_objects, extract_fields and write_to_supabase and leaves the
\* table alone, no further attempt is made for the URL, and write_to_supabase
\* has not been called for it (earlier, failed attempts of the same call may
\* have called extract_store_objects and extract_fields).
C7_RedirectEndsUrl ==
    /\ [][(pc = "crawl" /\ phase = "attempting" /\ attempt' = attempt + 1
           /\ Redirected(status'))
          => (phase' = "returned" /\ counts' = counts /\ store' = store
              /\ pending' = NoRecord)]_vars
    /\ [][(pc = "crawl" /\ phase = "returned")
          => (attempt' = 0 \/ attempt' = attempt) /\ counts' \in {counts, NoCounts}
             /\ (phase' = "finished" \/ urlIdx' = urlIdx + 1)]_vars
    /\ []((pc = "crawl" /\ phase = "returned" /\ Redirected(status)) => counts.writes = 0)

\* a redirect on a later attempt, after attempts that reached both functions
C7_Witness ==
    /\ pc = "crawl" /\ phase = "returned" /\ Redirected(status)
    /\ attempt >= 2 /\ counts.extracts > 0 /\ counts.maps > 0

\* the pass just made ended in one of the two except branches
PassRaised == backoff.raised \in {"RequestException", "Exception"}

\* C11: process_url_single always terminates.  It makes at most MAX_RETRIES (6)
\* attempts for a URL; the k-th attempt, when it ends in a network or
\* unexpected exception, is followed by a backoff of 5*k seconds (an attempt
\* that ends otherwise by none) and then, if k < MAX_RETRIES, by attempt k+1 of
\* the same URL; after the last failed attempt the function returns without
\* raising: the URL is abandoned and crawl_kvd goes on to its success reply.
C11_RetriesThenAbandons ==
    /\ [](pc = "crawl" => attempt <= MAX_RETRIES)
    /\ [][(pc = "crawl" /\ attempt' = attempt + 1)
          => /\ (~status'.ok => backoff'.raised = "RequestException")
             /\ backoff'.seconds = IF PassRaised' THEN 5 * attempt' ELSE 0
             /\ (PassRaised' => phase' = IF attempt' < MAX_RETRIES THEN "attempting"
                                          ELSE "exhausted")]_vars
    /\ [][(pc = "crawl" /\ phase = "attempting")
          => (attempt < MAX_RETRIES /\ attempt' = attempt + 1 /\ urlIdx' = urlIdx
              /\ processed' = processed)]_vars
    /\ [][(pc = "crawl" /\ phase = "exhausted")
          => /\ attempt = MAX_RETRIES /\ ended = "exhausted" /\ store' = store
             /\ phase' = "finished" /\ response' = Success(detail_urls)]_vars
    /\ ((pc = "crawl" /\ phase = "attempting") ~> (phase \in {"returned", "exhausted"}))

\* the sixth attempt of a URL has ended in an exception, after 30 seconds of
\* backoff the URL is abandoned
C11_Witness ==
    /\ pc = "crawl" /\ phase = "exhausted" /\ attempt = MAX_RETRIES
    /\ PassRaised /\ backoff.seconds = 30

-----------------------------------------------------------------------------
(* Claims about the URL loop and the HTTP surface, checked under SpecCrawl *)

\* the ways process_url_single can end for a URL: a redirect, the attempts used
\* up (extraction failures, network errors), a record without auction id, a
\* storage failure, a stored record
UrlOutcomes == {"redirect", "exhausted", "skipped", "error", "insert", "update"}

\* the reply is the success payload for n URLs, with HTTP status 200
IsSuccessReply(reply, n) ==
    /\ reply.code = 200
    /\ reply.payload = JObj(<< Item("status", JStr(<<"success">>)),
                               Item("processed_urls", JInt(n)) >>)

\* C12: whatever the outcome of each URL (redirect, extraction failure,
\* exhausted retries, missing auction id, storage failure), crawl_kvd calls
\* process_url_single for every URL of the selected range, one at a time in
\* listing order (the call for URL i+1 is made only after the call for URL i
\* has ended), and returns {status: success, processed_urls: number of URLs in
\* the range}.
C12_EveryUrlInOrder ==
    /\ []((pc = "crawl" /\ phase # "requested")
          => /\ urlIdx <= Len(detail_urls)
             /\ processed = SubSeq(detail_urls, 1, urlIdx))
    /\ [][(pc = "crawl" /\ processed' # processed)
          => /\ phase \in {"requested", "returned", "exhausted"}
             /\ pending = NoRecord
             /\ processed' = Append(processed, detail_urls'[Len(processed) + 1])]_vars
    /\ [][(pc = "crawl" /\ phase \in {"returned", "exhausted"})
          => /\ ended \in UrlOutcomes
             /\ IF urlIdx < Len(detail_urls)
                THEN phase' = "attempting" /\ Len(processed') = Len(processed) + 1
                ELSE /\ phase' = "finished" /\ processed = detail_urls
                     /\ IsSuccessReply(response', Len(detail_urls))]_vars

\* a crawl of two URLs has answered with its success payload although nothing
\* was stored: the last URL ended in a storage failure
C12_Witness ==
    /\ pc = "crawl" /\ phase = "finished"
    /\ processed = <<1, 2>> /\ ended = "error" /\ store = EmptyBag
    /\ IsSuccessReply(response, 2)

\* crawl_kvd fails before its loop: fetching the listing page raises
ListingFetchFails == request.method = "POST" /\ request.json = JNull /\ ~listing.ok

\* C13: a POST to the HTTP surface returns the payload {status, processed_urls}
\* with a success status when the crawl completes, and an error payload with
\* HTTP status 500 when the orchestration layer fails, for example when fetching
\* the listing page raises; a GET returns the static health payload and never
\* starts a crawl.
C13_PostFailureIs500 ==
    /\ [][(pc = "crawl" /\ phase = "requested" /\ request.method = "GET")
          => /\ phase' = "finished"
             /\ response'.code = 200
             /\ PyGet(response'.payload, "status", JNull) = JStr(<<"healthy">>)
             /\ listing' = listing /\ processed' = <<>> /\ attempt' = 0
             /\ store' = store]_vars
    /\ [][(pc = "crawl" /\ phase \in {"returned", "exhausted"} /\ phase' = "finished")
          => IsSuccessReply(response', Len(detail_urls))]_vars
    /\ [][(pc = "crawl" /\ phase = "requested" /\ ListingFetchFails)
          => /\ phase' = "finished"
             /\ response'.code = 500
             /\ PyGet(response'.payload, "error", JNull) # JNull]_vars

\* the JSON body {startAuctionCrawlCount: s, endAuctionCrawlCount: e}
RangeBody(s, e) ==
    JObj(<<Item("startAuctionCrawlCount", JInt(s)), Item("endAuctionCrawlCount", JInt(e))>>)

\* the listing positions s..e, in order
Positions(s, e) == [i \in 1..(e - s + 1) |-> s + i - 1]

\* C14: with startAuctionCrawlCount = s and endAuctionCrawlCount = e,
\* 1 <= s <= e <= total, crawl_kvd processes exactly the e - s + 1 URLs at the
\* 1-based positions s..e of the listing, both ends included, in listing
\* order, and no others.
C14_RangeIsInclusive ==
    /\ [][(pc = "crawl" /\ phase = "requested" /\ request.method = "POST" /\ listing.ok)
          => \A s, e \in 1..listing.links :
                (s <= e /\ request.json = RangeBody(s, e))
                => /\ detail_urls' = Positions(s, e)
                   /\ Len(detail_urls') = e - s + 1
                   /\ processed' = <<s>>]_vars
    /\ [][(pc = "crawl" /\ phase # "requested") => detail_urls' = detail_urls]_vars
    /\ []((pc = "crawl" /\ phase \notin {"requested", "finished"})
          => processed = SubSeq(detail_urls, 1, urlIdx))
    /\ []((pc = "crawl" /\ phase = "finished") => processed = detail_urls)

\* a crawl of the positions 2..3 of a listing of three has ended
C14_Witness ==
    /\ pc = "crawl" /\ phase = "finished"
    /\ detail_urls = <<2, 3>> /\ processed = <<2, 3>>
    /\ IsSuccessReply(response, 2)

-----------------------------------------------------------------------------
(* Two workers in write_to_supabase: the steps of one call on its own
   connection, against the table the other worker commits to *)

Workers == {1, 2}

\* the records the workers are handed
WorkerRecords ==
    {MkRecord(id, c, JNull) : id \in AuctionIds, c \in {JNull, JStr(<<"1", "Z">>)}}

IdleWorker == [pc |-> "idle", data |-> JNull, db |-> <<>>, found |-> FALSE, branch |-> "none"]

\* variant: a call may start while another one is under way, whatever the schedule
MayBeginAlways(schedule_, others) == TRUE

\* whether a call may start: the loop of crawl_kvd makes one call after the
\* other; concurrent workers are under no such rule
MayBegin(schedule_, others) ==
    schedule_ = "sequential" => \A o \in others : o.pc \in {"idle", "done", "failed"}

InitWorkers ==
    /\ pc = "workers"
    /\ schedule \in {"sequential", "concurrent"}
    /\ workers = [w \in Workers |-> IdleWorker]
    /\ store \in {EmptyBag, SetToBag({EarlierRow})}
    /\ calls = 0 /\ prev = NoCall /\ last = NoCall
    /\ IdleExtract /\ IdleClean /\ IdleFields /\ IdleCrawl /\ IdleImage

\* worker w enters write_to_supabase(data): the guard passes, db_data is built
\* and the connection is open
Begin(w) ==
    /\ pc = "workers" /\ workers[w].pc = "idle"
    /\ MayBegin(schedule, {workers[o] : o \in Workers \ {w}})
    /\ \E data \in WorkerRecords :
         /\ ~GuardSkips(data)
         /\ workers' = [workers EXCEPT ![w] =
                          [IdleWorker EXCEPT !.pc = "connected", !.data = data,
                                             !.db = CoerceNumeric(DbData(NormalizeDates(data)), 1)]]
    /\ calls' = calls + 1
    /\ UNCHANGED <<pc, schedule, store, prev, last, extractVars, cleanVars, fieldVars,
                   crawlVars, imageVars>>

\* the SELECT of worker w and its fetchone(): it sees the committed rows
Select(w) ==
    /\ pc = "workers" /\ workers[w].pc = "connected"
    /\ workers' = [workers EXCEPT ![w].pc = "selected",
                                  ![w].found = ExistingRecord(store, RowId(workers[w].db))]
    /\ UNCHANGED <<pc, schedule, storeVars, extractVars, cleanVars, fieldVars, crawlVars, imageVars>>

\* worker w issues its UPDATE or its INSERT inside its transaction
Write(w) ==
    /\ pc = "workers" /\ workers[w].pc = "selected"
    /\ workers' = [workers EXCEPT ![w].pc = "written",
                                  ![w].branch = IF workers[w].found THEN "update" ELSE "insert"]
    /\ UNCHANGED <<pc, schedule, storeVars, extractVars, cleanVars, fieldVars, crawlVars, imageVars>>

\* conn.commit() of worker w: its statement takes effect on the table, or the
\* commit raises and nothing does
Commit(w) ==
    /\ pc = "workers" /\ workers[w].pc = "written"
    /\ \E ok \in BOOLEAN :
         /\ store' = IF ~ok THEN store
                     ELSE IF workers[w].branch = "update"
                     THEN SqlUpdate(store, workers[w].db, RowId(workers[w].db))
                     ELSE SqlInsert(store, workers[w].db)
         /\ workers' = [workers EXCEPT ![w].pc = IF ok THEN "done" ELSE "failed"]
    /\ UNCHANGED <<pc, schedule, calls, prev, last, extractVars, cleanVars, fieldVars,
                   crawlVars, imageVars>>

NextWorkers == \E w \in Workers : Begin(w) \/ Select(w) \/ Write(w) \/ Commit(w)

SpecWorkers == InitWorkers /\ [][NextWorkers]_vars

-----------------------------------------------------------------------------
(* Claims about concurrent calls, checked under SpecWorkers *)

\* how many stored rows carry auction id id
RowsOfId(id) == CopiesOf(store, SelectRows(store, id))

\* both workers have read "not found" for the same auction id and both have
\* issued an insert that is committed or can still be
TwoInsertsOneId ==
    /\ \A w \in Workers : workers[w].pc \in {"written", "done"} /\ workers[w].branch = "insert"
                          /\ ~workers[w].found
    /\ RowId(workers[1].db) = RowId(workers[2].db)

\* C15: two workers that run write_to_supabase concurrently for the same
\* auctionId, not yet stored, can both read "not found" and both issue an
\* insert; when the calls are made one after another, as the loop of crawl_kvd
\* makes them, no such state is reachable and at most one row per auctionId
\* exists after any sequence of calls.  (More than one row for an id comes
\* about only through two such inserts.)
C15_RaceOnlyWhenConcurrent ==
    /\ pc = "workers" /\ schedule = "sequential"
         => /\ ~TwoInsertsOneId
            /\ \A id \in AuctionIds : RowsOfId(id) <= 1
    /\ pc = "workers" /\ (\E id \in AuctionIds : RowsOfId(id) > 1)
         => schedule = "concurrent" /\ TwoInsertsOneId

\* both workers have inserted and committed: two rows for one auction id
C15_Witness ==
    /\ pc = "workers" /\ schedule = "concurrent" /\ TwoInsertsOneId
    /\ \A w \in Workers : workers[w].pc = "done"
    /\ RowsOfId(RowId(workers[1].db)) = 2

-----------------------------------------------------------------------------
(* Claims about the battery capacity, checked under SpecClean and SpecFields *)

\* seq is a number: digits, or digits, ',' or '.', digits
IsNumber(seq) ==
    \/ IsDigits(seq)
    \/ \E k \in 2..Len(seq) - 1 :
          /\ seq[k] \in {",", "."}
          /\ IsDigits(SubSeq(seq, 1, k - 1)) /\ IsDigits(SubSeq(seq, k + 1, Len(seq)))

\* from index j on: optional blanks, then kWh in any letter case
KwhFollows(chars, j) ==
    \E u \in j..Len(chars) - 2 :
       /\ \A m \in j..u - 1 : chars[m] = " "
       /\ Lower(chars[u]) = "k" /\ Lower(chars[u + 1]) = "w" /\ Lower(chars[u + 2]) = "h"

\* where the numbers followed by kWh start and end
KwhNumbers(chars) ==
    {p \in (1..Len(chars)) \X (1..Len(chars)) :
        /\ p[1] <= p[2]
        /\ IsNumber(SubSeq(chars, p[1], p[2]))
        /\ KwhFollows(chars, p[2] + 1)}

\* the first of them, as text
FirstKwhNumber(chars) ==
    LET p == CHOOSE x \in KwhNumbers(chars) : \A y \in KwhNumbers(chars) : x[1] <= y[1]
    IN SubSeq(chars, p[1], p[2])

\* the value of a number in tenths; its decimal part has one digit
Tenths(seq) ==
    IF IsDigits(seq) THEN 10 * Num(seq)
    ELSE 10 * Num(SubSeq(seq, 1, Len(seq) - 2)) + DigitVal[seq[Len(seq)]]

\* C16: the battery capacity extracted from a model name is the first number
\* (with an optional decimal part after ',' or '.') that is followed by
\* optional whitespace and kWh in any letter case, as a float, a decimal comma
\* read as a dot ("Polestar 2 78 kWh" gives 78.0); it is null when the model
\* name has no such pattern ("Volvo XC40 Recharge" gives null); the step never
\* raises.
C16_FirstNumberBeforeKwh ==
    (pc = "cleaned" /\ name.t = "str")
    => /\ ~IsRaise(cleaned.battery)
       /\ IF KwhNumbers(name.s) = {} THEN cleaned.battery = JNull
          ELSE cleaned.battery = JFloat(Tenths(FirstKwhNumber(name.s)))
       /\ name.s = <<"P", "o", "l", "e", "s", "t", "a", "r", " ", "2", " ", "7", "8", " ",
                     "k", "W", "h">> => cleaned.battery = JFloat(780)
       /\ name.s = <<"V", "o", "l", "v", "o", " ", "X", "C", "4", "0", " ", "R", "e", "c",
                     "h", "a", "r", "g", "e">> => cleaned.battery = JNull

\* the name with a decimal comma has given 80.0
C16_Witness ==
    /\ pc = "cleaned" /\ name = JStr(ExampleName)
    /\ FirstKwhNumber(name.s) = <<"8", "0", ",", "0">>
    /\ cleaned.battery = JFloat(800)

\* chars without a leading "Tesla "
StripTeslaPrefix(chars) ==
    IF Len(chars) >= 6 /\ SubSeq(chars, 1, 6) = <<"T", "e", "s", "l", "a", " ">>
    THEN SubSeq(chars, 7, Len(chars)) ELSE chars

\* the table value of a trim, null for a trim the table does not hold
TableValue(key) ==
    IF \E i \in 1..Len(tesla_capacities) : tesla_capacities[i].key = key
    THEN tesla_capacities[CHOOSE i \in 1..Len(tesla_capacities) :
                              tesla_capacities[i].key = key].kwh
    ELSE JNull

\* the capacity the kWh pattern finds in a model name, null when it finds none
PatternCapacity(model_name) ==
    IF KwhNumbers(model_name.s) = {} THEN JNull
    ELSE JFloat(Tenths(FirstKwhNumber(model_name.s)))

\* the record was built from the undamaged item of the profile
BuiltFromProfile ==
    /\ pc = "mapped" /\ shape.damage = NoDamage
    /\ shape.entries # <<>> /\ shape.entries[1] = "full"
    /\ fields.main.t = "obj"

\* C17: the Tesla lookup table is consulted only when no capacity was extracted
\* from the model name and the cleaned brand is exactly "Tesla"; a capacity
\* extracted by the kWh pattern is never replaced by a table value; the lookup
\* key is the cleaned model name with the "Tesla " prefix removed ("Tesla Model
\* S 100D" gives 100.0), and a trim not in the table gives null.
C17_TeslaPrefixLookup ==
    BuiltFromProfile =>
        LET p == shape.profile
            brand == IF Truthy(p.brand) THEN clean_brand_name(p.brand) ELSE JNull
            key == StripTeslaPrefix(clean_model_name(p.modelName).s)
        IN PyGet(fields.main, "batteryCapacity", JNull) =
              IF PatternCapacity(p.modelName) # JNull THEN PatternCapacity(p.modelName)
              ELSE IF brand = JStr(<<"T", "e", "s", "l", "a">>) THEN TableValue(key)
              ELSE JNull

\* the columns that hold the fields of the numeric field-type table
NumericColumns ==
    << [col |-> K("s", "old_for"), type |-> "float"],
       [col |-> K("b", "uy_now_amount"), type |-> "float"],
       [col |-> K("p", "reliminary_price"), type |-> "float"],
       [col |-> K("w", "inning_bid"), type |-> "float"],
       [col |-> K("h", "ighest_bid"), type |-> "float"],
       [col |-> K("o", "dometer_reading"), type |-> "int"],
       [col |-> K("y", "ear"), type |-> "int"],
       [col |-> K("b", "attery_capacity"), type |-> "float"],
       [col |-> K("r", "ange_city_wltp_drive"), type |-> "int"],
       [col |-> K("r", "ange_wltp_drive"), type |-> "int"],
       [col |-> K("e", "ngine_power_hp"), type |-> "int"],
       [col |-> K("e", "ngine_power"), type |-> "int"] >>

\* C18: for every field of the numeric field-type table the value that
\* write_to_supabase sends to the store is null or a value of the table's type:
\* a string is re-cast, and a value that cannot be cast is replaced by null.
C18_SentNumericOrNull ==
    (pc = "store" /\ last.writes = 1) =>
        \A i \in 1..Len(NumericColumns) :
            DbGet(last.db, NumericColumns[i].col).t \in {"null", NumericColumns[i].type}

RECURSIVE NodeAt(_, _)
\* the node of a tree at a path of keys, null when the path leaves the tree
NodeAt(v, path) ==
    IF path = <<>> THEN v
    ELSE IF v.t \in {"obj", "arr"} /\ \E i \in 1..Len(v.items) : v.items[i].k = Head(path)
    THEN NodeAt(v.items[CHOOSE i \in 1..Len(v.items) : v.items[i].k = Head(path)].v, Tail(path))
    ELSE JNull

\* the fuels list of the authority register's technical specification, and the
\* raw model name, of the first item of the page
TechFuels ==
    NodeAt(tree, InItem(<<"processObject", "baseObject", "authorityRegisterInformation",
                          "generalTechSpecification", "fuels">>))
RawModelName == NodeAt(tree, InItem(<<"processObject", "baseObject", "modelName">>))

\* a record was built from the first item of the page, which is a full item
BuiltFromFirst ==
    /\ pc = "mapped" /\ Built(fields.main)
    /\ shape.entries # <<>> /\ shape.entries[1] = "full"

\* C19: enginePowerHp of a produced record is fuels[0].enginePowerHp of the
\* authority register's technical specification when that list is non-empty,
\* and in every other case (also when properties.fuels is empty or absent) the
\* horsepower that the hk pattern finds in the raw model name, null if none.
C19_HpFromRegisterElseName ==
    BuiltFromFirst =>
        PyGet(fields.main, "enginePowerHp", JNull) =
            IF TechFuels.t = "arr" /\ TechFuels.items # <<>>
            THEN NodeAt(TechFuels, <<"0", "enginePowerHp">>)
            ELSE extract_engine_power_from_model_name(RawModelName)

\* the fields whose column value is the record's value as it stands: no date, no
\* cast, no serialization
PlainFields ==
    {ColumnTable[i].field : i \in 1..Len(ColumnTable)}
        \ {"closedAt", "publishedAt", "year", "objectViewJson"}

\* the rows stored under the auction id of the last call's record
RowsOfLast == SelectRows(store, PyGet(last.data, "auctionId", JNull))

\* C20: after a successful write_to_supabase(r) the stored row for r.auctionId
\* equals the column projection of r in every mapped column, whether the row was
\* inserted or updated: a null in r overwrites a stored non-null value, and no
\* mapped column keeps a value from an earlier record.
C20_RowIsProjection ==
    (pc = "store" /\ last.committed) =>
        /\ RowsOfLast # {}
        /\ \A row \in RowsOfLast : \A i \in 1..Len(ColumnTable) :
              /\ DbGet(row, ColumnTable[i].col) = DbGet(last.db, ColumnTable[i].col)
              /\ ColumnTable[i].field \in PlainFields =>
                    DbGet(row, ColumnTable[i].col) = PyGet(last.data, ColumnTable[i].field, JNull)
              /\ ColumnTable[i].field = "closedAt" =>
                    (DbGet(row, ColumnTable[i].col) = JNull
                        <=> ~Truthy(PyGet(last.data, "closedAt", JNull)))

\* the row was updated, and two columns that the earlier call had filled are
\* null again because the record of this call holds null there
C20_Witness ==
    /\ pc = "store" /\ last.committed /\ last.branch = "update"
    /\ prev.committed
    /\ PyGet(prev.data, "auctionId", JNull) = PyGet(last.data, "auctionId", JNull)
    /\ DbGet(prev.db, K("c", "losed_at")) # JNull
    /\ DbGet(prev.db, K("b", "uy_now_amount")) # JNull
    /\ PyGet(last.data, "closedAt", JNull) = JNull
    /\ PyGet(last.data, "buyNowAmount", JNull) = JNull
    /\ \A row \in RowsOfLast :
          /\ DbGet(row, K("c", "losed_at")) = JNull
          /\ DbGet(row, K("b", "uy_now_amount")) = JNull

-----------------------------------------------------------------------------
(* Claims about a write that fails inside the crawl *)

\* the call of write_to_supabase just made opened (or tried to open) the
\* connection and did not get to the end of its commit
WriteRaised(call) == call.connects = 1 /\ ~call.committed

\* C21: if opening the connection or any query raises inside write_to_supabase,
\* no exception escapes the call, nothing is committed for that record, the URL
\* is not retried by process_url_single, and the crawl goes on to the next URL.
C21_FailedWriteIsContained ==
    /\ [][(pc = "crawl" /\ phase = "storing" /\ WriteRaised(last'))
            => /\ store' = store
               /\ ended' = "error"
               /\ phase' = "returned"
               /\ attempt' = attempt /\ backoff' = backoff /\ urlIdx' = urlIdx]_vars
    /\ [][(pc = "crawl" /\ phase = "returned" /\ WriteRaised(last))
            => /\ store' = store
               /\ \/ (urlIdx < total /\ urlIdx' = urlIdx + 1 /\ attempt' = 0
                        /\ phase' = "attempting")
                  \/ (urlIdx = total /\ phase' = "finished"
                        /\ IsSuccessReply(response', total))]_vars

\* the connection for the first of two URLs could not be opened on the first
\* attempt: nothing is stored, attempts are left, and the URL is done with
C21_Witness ==
    /\ pc = "crawl" /\ phase = "returned" /\ urlIdx = 1 /\ total = 2
    /\ last.outcome = "error" /\ last.connects = 1 /\ last.reads = 0
    /\ counts.writes = 1 /\ attempt = 1
    /\ store = EmptyBag

-----------------------------------------------------------------------------
(* Claims about what a write leaves alone, checked under SpecStore *)

\* the auction id of the record a call was made with
IdOfCall(call) == PyGet(call.data, "auctionId", JNull)

\* how many rows the table st holds under auction id x
RowCount(st, x) == CopiesOf(st, SelectRows(st, x))

\* C22: write_to_supabase for auctionId X never deletes a row and leaves the
\* rows of every other auctionId unchanged, so the set of stored auctionIds
\* never shrinks; each call commits on its own, so wherever the process stops,
\* every row committed for an earlier URL is still present and unchanged.
C22_OtherRowsUntouched ==
    /\ [][pc = "store" =>
            /\ \A r \in BagToSet(store) \cup BagToSet(store') :
                  RowId(r) # IdOfCall(last') => CopiesIn(r, store') = CopiesIn(r, store)
            /\ \A x \in AuctionIds : RowCount(store', x) >= RowCount(store, x)
            /\ {RowId(r) : r \in BagToSet(store)} \subseteq {RowId(r) : r \in BagToSet(store')}
            /\ ~last'.committed => store' = store]_vars
    /\ [](pc = "store" /\ prev.committed /\ IdOfCall(prev) # IdOfCall(last)
            => /\ SelectRows(store, IdOfCall(prev)) = {prev.db}
               /\ RowCount(store, IdOfCall(prev)) = 1)

\* a row was committed for one id, and the write for another id got as far as
\* its INSERT and never committed: the first row is there as it was written and
\* the second id has no row
C22_Witness ==
    /\ pc = "store" /\ prev.committed /\ prev.branch = "insert"
    /\ last.writes = 1 /\ ~last.committed
    /\ IdOfCall(prev) # IdOfCall(last)
    /\ SelectRows(store, IdOfCall(prev)) = {prev.db}
    /\ SelectRows(store, IdOfCall(last)) = {}

-----------------------------------------------------------------------------
(* The image chain of process_url_single on one fetched page *)

\* bound: how many meta tags a page holds
MaxMetas == 2

\* the content of a meta tag: none, empty, a URL, a URL on the image CDN
Contents == {JNull, JStr(<<>>), JStr(<<"u">>), JStr(<<"i", "m", "g", "i", "x", ".", "n", "e", "t">>)}

MetaTags ==
    {MetaTag(p, n, h, c) : p \in {"", "og:image"}, n \in {"", "og:image"},
                           h \in BOOLEAN, c \in Contents}

MetaLists == UNION {[1..k -> MetaTags] : k \in 0..MaxMetas}

\* the stores of a page: an item without preview image, with one, with an
\* empty one, and an item without followed by an item with a preview image
ImageStores ==
    {OneEntry(OtherItem),
     OneEntry(PySet(OtherItem, "previewImage", JStr(<<"p">>))),
     OneEntry(PySet(OtherItem, "previewImage", JStr(<<>>))),
     JObj(<<Item("objectView", JObj(<<Item("storeObjects", JObj(<<
         Item("k1", OtherItem),
         Item("k2", PySet(OtherItem, "previewImage", JStr(<<"q">>))) >>)) >>)) >>)}

InitImage ==
    /\ pc = "image"
    /\ detail_soup \in [store : ImageStores, metas : MetaLists]
    /\ main_image = [url |-> JNull, source |-> JNull]
    /\ IdleStore /\ IdleExtract /\ IdleClean /\ IdleFields /\ IdleCrawl /\ IdleWorkers

\* the part of one pass that sets main_image_url and image_source
ChooseImage ==
    /\ pc = "image"
    /\ main_image' = ImageOf(PreviewImageOf(detail_soup.store), detail_soup.metas)
    /\ pc' = "imaged"
    /\ UNCHANGED <<detail_soup, storeVars, extractVars, cleanVars, fieldVars, crawlVars,
                   workerVars>>

NextImage == ChooseImage

SpecImage == InitImage /\ [][NextImage]_vars

-----------------------------------------------------------------------------
(* Claims about the image chain, checked under SpecImage *)

\* the entries of the page's store
PageEntries ==
    PyGet(PyGet(detail_soup.store, "objectView", EmptyObj), "storeObjects", EmptyObj).items

\* whether a meta tag answers to strategy k (2: property og:image, 3: property
\* og:image with data-react-helmet, 4: name og:image, 5: content on the CDN)
Answers(k, tag) ==
    CASE k = 2 -> tag.property = "og:image"
      [] k = 3 -> tag.property = "og:image" /\ tag.helmet
      [] k = 4 -> tag.name = "og:image"
      [] k = 5 -> tag.content.t = "str" /\ \E i \in 1..Len(tag.content.s) :
                     i + 8 <= Len(tag.content.s)
                     /\ SubSeq(tag.content.s, i, i + 8) = <<"i", "m", "g", "i", "x", ".", "n", "e", "t">>

\* the preview images of the store entries, first entry that has one
PreviewUrls ==
    {PyGet(PageEntries[i].v, "previewImage", JNull) : i \in
        {i \in 1..Len(PageEntries) :
            /\ Truthy(PyGet(PageEntries[i].v, "previewImage", JNull))
            /\ \A j \in 1..(i - 1) : ~Truthy(PyGet(PageEntries[j].v, "previewImage", JNull))}}

\* the non-empty URLs that the page holds for strategy k, in any tag
AnyTagUrls ==
    [k \in 1..5 |->
        IF k = 1 THEN PreviewUrls
        ELSE {detail_soup.metas[i].content : i \in
                {i \in 1..Len(detail_soup.metas) :
                    Answers(k, detail_soup.metas[i]) /\ Truthy(detail_soup.metas[i].content)}}]

\* the non-empty URL of the first tag of the page that answers to strategy k
FirstTagUrls ==
    [k \in 1..5 |->
        IF k = 1 THEN PreviewUrls
        ELSE {detail_soup.metas[i].content : i \in
                {i \in 1..Len(detail_soup.metas) :
                    /\ Answers(k, detail_soup.metas[i])
                    /\ \A j \in 1..(i - 1) : ~Answers(k, detail_soup.metas[j])
                    /\ Truthy(detail_soup.metas[i].content)}}]

SourceNames ==
    << <<"s", "t", "o", "r", "e", "_", "d", "a", "t", "a", "_", "p", "r", "e", "v", "i", "e", "w", "_", "i", "m", "a", "g", "e">>,
       <<"m", "e", "t", "a", "_", "o", "g", "_", "i", "m", "a", "g", "e">>,
       <<"m", "e", "t", "a", "_", "r", "e", "a", "c", "t", "_", "h", "e", "l", "m", "e", "t">>,
       <<"m", "e", "t", "a", "_", "n", "a", "m", "e", "_", "o", "g", "_", "i", "m", "a", "g", "e">>,
       <<"m", "e", "t", "a", "_", "i", "m", "g", "i", "x", "_", "n", "e", "t">> >>

\* the image is the one of the first strategy that has a URL, with its name
FromFirstStrategy(urls) ==
    /\ main_image.source = JNull <=> main_image.url = JNull
    /\ IF \E k \in 1..5 : urls[k] # {}
       THEN LET k == CHOOSE x \in 1..5 : urls[x] # {} /\ \A y \in 1..(x - 1) : urls[y] = {}
            IN main_image.url \in urls[k] /\ main_image.source = JStr(SourceNames[k])
       ELSE main_image.url = JNull

\* C23 as stated: the image URL comes from the highest-priority strategy
\* (previewImage, meta property og:image, the same with data-react-helmet, meta
\* name og:image, first meta on the image CDN) for which a non-empty URL exists
\* on the page; imageSource names that strategy and is null exactly when
\* mainImageUrl is null.
C23_HighestStrategyWithUrl ==
    pc = "imaged" => FromFirstStrategy(AnyTagUrls)

\* C23, amended: each meta strategy looks at the first tag that answers to it
\* and has a URL only when that tag has a non-empty content; the image URL comes
\* from the highest-priority strategy that has one, imageSource names that
\* strategy and is null exactly when mainImageUrl is null.
C23_HighestStrategyFirstTag ==
    pc = "imaged" => FromFirstStrategy(FirstTagUrls)

\* the first og:image tag has no content and the second, with
\* data-react-helmet, has one: the image is the second tag's, as meta_react_helmet
C23_Witness ==
    /\ pc = "imaged" /\ PreviewUrls = {}
    /\ Len(detail_soup.metas) = 2
    /\ detail_soup.metas[1].property = "og:image" /\ ~Truthy(detail_soup.metas[1].content)
    /\ detail_soup.metas[2].property = "og:image" /\ detail_soup.metas[2].helmet
    /\ main_image.url = detail_soup.metas[2].content
    /\ main_image.url # JNull
    /\ main_image.source = JStr(SourceNames[3])

-----------------------------------------------------------------------------
(* Claims about the columns of a stored record, checked under SpecCrawl *)

\* the fields of the record that process_url_single hands to write_to_supabase
HandedFields ==
    {pending.record.items[i].k : i \in 1..Len(pending.record.items)}
        \cup {"mainImageUrl", "imageSource"}

\* the columns that db_data gives to a field
ColumnsOfField(f) == {ColumnTable[i].col : i \in {j \in 1..Len(ColumnTable) : ColumnTable[j].field = f}}

\* C24: every field of the record handed to write_to_supabase (imageSource and
\* the derived fields included) is written to a column of the stored row, one
\* column per field, plus the raw JSON column with the serialized objectView.
C24_EveryFieldHasColumn ==
    [][(pc = "crawl" /\ phase = "storing" /\ last'.committed) =>
          \A row \in BagToSet(store') :
             /\ \A f \in HandedFields :
                   /\ Cardinality(ColumnsOfField(f)) = 1
                   /\ \A col \in ColumnsOfField(f) : \E c \in 1..Len(row) : row[c].k = col
             /\ Truthy(pending.preview) =>
                   /\ \E c \in 1..Len(row) : row[c].v = pending.preview
                   /\ \E c \in 1..Len(row) : row[c].v = JStr(<<"s", "t", "o", "r", "e", "_", "d", "a", "t", "a", "_", "p", "r", "e", "v", "i", "e", "w", "_", "i", "m", "a", "g", "e">>)
             /\ \E c \in 1..Len(row) :
                   row[c].v = JsonDumps(PyGet(pending.record, "objectViewJson", JNull))]_vars

-----------------------------------------------------------------------------
(* Claims about the search fields, checked under SpecFields *)

\* the electric and the fossil search field of each pair
SearchPairs ==
    {<<"modelNameElectricSearch", "modelNameFossilSearch">>,
     <<"brandElectricSearch", "brandFossilSearch">>}

\* what C25 says of one record
SearchFieldsPartitioned(rec) ==
    LET sold_for == PyGet(rec, "soldFor", JNull)
        fuel == PyGet(rec, "fuelCode", JNull)
        positive == sold_for.t \in {"int", "float"} /\ sold_for.n > 0
    IN \A pair \in SearchPairs :
          LET electric == PyGet(rec, pair[1], JNull)
              fossil == PyGet(rec, pair[2], JNull)
          IN /\ electric # JNull => positive /\ fuel = Electric
             /\ fossil # JNull => positive /\ fuel # Electric
             /\ electric = JNull \/ fossil = JNull

\* C25: in every record produced by extract_fields the fuel-conditioned search
\* fields are non-null only when soldFor > 0, the electric ones only when
\* fuelCode is exactly "Electric" and the fossil ones only when it is not, so the
\* two fields of a pair are never both non-null.
C25_SearchFieldsPartitioned ==
    pc = "mapped" =>
        /\ Built(fields.main) => SearchFieldsPartitioned(fields.main)
        /\ Built(fields.car_crawler) => SearchFieldsPartitioned(fields.car_crawler)

\* a record of a diesel car sold for a positive amount: the fossil fields are
\* filled and the electric ones are null
C25_Witness ==
    /\ pc = "mapped" /\ Built(fields.car_crawler)
    /\ PyGet(fields.car_crawler, "fuelCode", JNull) = JStr(<<"D", "i", "e", "s", "e", "l">>)
    /\ PyGet(fields.car_crawler, "soldFor", JNull) = JFloat(1000000)
    /\ PyGet(fields.car_crawler, "modelNameFossilSearch", JNull) # JNull
    /\ PyGet(fields.car_crawler, "brandFossilSearch", JNull) # JNull
    /\ PyGet(fields.car_crawler, "modelNameElectricSearch", JNull) = JNull
    /\ PyGet(fields.car_crawler, "brandElectricSearch", JNull) = JNull

-----------------------------------------------------------------------------
(* Claims about the auction identifier, checked under SpecFields *)

\* the item extract_fields builds the record from: the first entry of
\* objectView.storeObjects with a truthy value
FirstItem == StoreEntries[ChosenEntry(StoreEntries)].v

\* the run of digits after the last '-' when the text ends with it, else None
DigitSuffix(url) ==
    IF url.t # "str" THEN JNull
    ELSE LET chars == url.s
             dashes == {i \in 1..Len(chars) : chars[i] = "-"}
         IN IF dashes = {} THEN JNull
            ELSE LET i == CHOOSE x \in dashes : \A y \in dashes : y <= x
                 IN IF IsDigits(SubSeq(chars, i + 1, Len(chars)))
                    THEN JStr(SubSeq(chars, i + 1, Len(chars)))
                    ELSE JNull

\* the URL of the item ends in a newline
UrlEndsInNewline ==
    /\ UrlOf(FirstItem).t = "str" /\ UrlOf(FirstItem).s # <<>>
    /\ UrlOf(FirstItem).s[Len(UrlOf(FirstItem).s)] = "\n"

\* C26: auctionId is the run of digits that follows the last '-' at the very
\* end of auctionUrl; when auctionUrl is absent, empty, or does not end with
\* '-' followed by digits, auctionId is null, and the record built from that
\* page is never written to the store.
C26_AuctionIdIsSuffix ==
    (pc = "handed" /\ Built(fields.main)) =>
        /\ PyGet(fields.main, "auctionId", JNull) = DigitSuffix(UrlOf(FirstItem))
        /\ DigitSuffix(UrlOf(FirstItem)) = JNull => last.writes = 0 /\ store = EmptyBag

\* the same for the URLs that do not end in a newline
C26_AuctionIdIsSuffixNoNewline ==
    (pc = "handed" /\ Built(fields.main) /\ ~UrlEndsInNewline) =>
        /\ PyGet(fields.main, "auctionId", JNull) = DigitSuffix(UrlOf(FirstItem))
        /\ DigitSuffix(UrlOf(FirstItem)) = JNull => last.writes = 0 /\ store = EmptyBag

\* a URL with a digit suffix gave that suffix and the record was stored; a URL
\* without one gave null and the table stayed empty; a URL with a newline after
\* the digits gave the digits and the record was stored
C26_WitnessStored ==
    /\ pc = "handed" /\ Built(fields.main)
    /\ UrlOf(FirstItem) = JStr(<<"a", "-", "1", "-", "2", "3">>)
    /\ PyGet(fields.main, "auctionId", JNull) = JStr(<<"2", "3">>)
    /\ last.writes = 1 /\ store # EmptyBag
C26_WitnessSkipped ==
    /\ pc = "handed" /\ Built(fields.main)
    /\ UrlOf(FirstItem) = JStr(<<"a", "-", "1", "2", "b">>)
    /\ PyGet(fields.main, "auctionId", JNull) = JNull
    /\ last.outcome = "skipped" /\ store = EmptyBag
C26_WitnessNewline ==
    /\ pc = "handed" /\ Built(fields.main)
    /\ UrlOf(FirstItem) = JStr(<<"a", "-", "1", "2", "\n">>)
    /\ PyGet(fields.main, "auctionId", JNull) = JStr(<<"1", "2">>)
    /\ last.writes = 1 /\ store # EmptyBag

-----------------------------------------------------------------------------
(* Claims about the cleaning functions on values of any type, checked under
   SpecClean *)

\* none of the five steps raised on the name
NoStepRaised ==
    /\ ~IsRaise(cleaned.model) /\ ~IsRaise(cleaned.brand) /\ ~IsRaise(cleaned.battery)
    /\ ~IsRaise(cleaned.tesla) /\ ~IsRaise(cleaned.power)

\* C27: no normalization step raises for any value a parsed JSON tree can hold
\* in modelName or brand (string, number, boolean, list, object, null):
\* clean_model_name, clean_brand_name, the battery-capacity extraction,
\* get_tesla_battery_capacity and extract_engine_power_from_model_name each
\* return a value, and empty input to clean_model_name gives the empty string.
C27_NoStepRaises ==
    pc = "cleaned" =>
        /\ NoStepRaised
        /\ ~Truthy(name) => cleaned.model = JStr(<<>>)

\* the same for strings, and for the falsy values without
\* get_tesla_battery_capacity, which extract_fields calls on non-empty strings
\* only
C27_NoStepRaisesOnStrings ==
    pc = "cleaned" =>
        /\ name.t = "str" => NoStepRaised
        /\ ~Truthy(name) =>
              /\ cleaned.model = JStr(<<>>) /\ cleaned.brand = JStr(<<>>)
              /\ cleaned.battery = JNull /\ cleaned.power = JNull

\* the number 5 as the name: every step raised
C27_WitnessNumber ==
    /\ pc = "cleaned" /\ name = JInt(5)
    /\ IsRaise(cleaned.model) /\ IsRaise(cleaned.brand) /\ IsRaise(cleaned.battery)
    /\ IsRaise(cleaned.tesla) /\ IsRaise(cleaned.power)

-----------------------------------------------------------------------------
(* Claims about texts without an object, checked under SpecExtract *)

\* the index of the first '{' of chars, 0 when there is none
FirstOpen(chars) ==
    IF HasChar(chars, "{")
    THEN CHOOSE i \in 1..Len(chars) :
            chars[i] = "{" /\ \A j \in 1..(i - 1) : chars[j] # "{"
    ELSE 0

\* the index of the '}' that matches the '{' at index f: the first place from
\* which on as many braces are closed as were opened; 0 when there is none
MatchingClose(chars, f) ==
    LET even == {j \in f..Len(chars) : Count(chars, "{", f, j) = Count(chars, "}", f, j)}
    IN IF even = {} THEN 0 ELSE CHOOSE j \in even : \A m \in even : j <= m

\* the text from the first '{' to its matching '}' is there and is no JSON
FirstGroupIsNoJson(chars) ==
    /\ FirstOpen(chars) > 0
    /\ MatchingClose(chars, FirstOpen(chars)) > 0
    /\ ~json_loads(SubSeq(chars, FirstOpen(chars), MatchingClose(chars, FirstOpen(chars)))).ok

\* C28: extract_store_objects returns the empty result without raising when the
\* text contains no '{', and when the substring from the first '{' to its
\* matching '}' is not valid JSON; in the second case it does not look for a
\* later candidate object in the same text.
C28_NoObjectGivesNone ==
    pc = "extracted" =>
        /\ ~HasChar(text, "{") => extracted = JNull
        /\ FirstGroupIsNoJson(text) => extracted = JNull

\* the text {a}{}: the first group is no JSON, a well-formed object follows it,
\* and the result is None
C28_Witness ==
    /\ pc = "extracted"
    /\ text = <<"{", "a", "}", "{", "}">>
    /\ FirstGroupIsNoJson(text)
    /\ WellFormedObject(SubSeq(text, 4, 5))
    /\ extracted = JNull

\* a text without any '{' gave None
C28_WitnessNoBrace ==
    /\ pc = "extracted" /\ text = <<"a", "}">> /\ extracted = JNull

-----------------------------------------------------------------------------
(* Claims about the calls of one process_url_single, checked under SpecCrawl *)

\* the pass just made fetched the page without an exception and without a
\* redirect and left no record to store: no store data, or an empty record
NothingExtracted ==
    /\ status.ok /\ ~Redirected(status)
    /\ backoff.raised = "" /\ pending = NoRecord

\* C29: across all retry attempts of one call of process_url_single,
\* write_to_supabase is called at most once: as soon as an attempt reaches the
\* reconciler call the function returns, whatever the outcome of the write,
\* while an attempt whose extraction gives no store data or an empty record is
\* followed by another fetch attempt until MAX_RETRIES is reached.
C29_AtMostOneWrite ==
    /\ [](pc = "crawl" => counts.writes <= 1)
    /\ [][(pc = "crawl" /\ counts'.writes = counts.writes + 1)
            => /\ phase = "storing" /\ phase' = "returned"
               /\ ended' \in {"skipped", "error", "insert", "update"}
               /\ attempt' = attempt /\ urlIdx' = urlIdx]_vars
    /\ [][(pc = "crawl" /\ phase = "returned" /\ counts.writes = 1)
            => (urlIdx' = urlIdx + 1 /\ counts' = NoCounts) \/ phase' = "finished"]_vars
    /\ [][(pc = "crawl" /\ phase = "attempting" /\ attempt' = attempt + 1
           /\ NothingExtracted')
            => /\ counts'.writes = counts.writes
               /\ phase' = IF attempt' < MAX_RETRIES THEN "attempting" ELSE "exhausted"]_vars
    /\ [][(pc = "crawl" /\ phase = "attempting" /\ NothingExtracted /\ attempt > 0)
            => (attempt' = attempt + 1 /\ urlIdx' = urlIdx)]_vars

\* the third attempt of a URL reached the call after two attempts that mapped an
\* empty record or found no store data; the write failed and the function
\* returned with attempts left
C29_Witness ==
    /\ pc = "crawl" /\ phase = "returned"
    /\ attempt = 3 /\ attempt < MAX_RETRIES
    /\ counts.writes = 1 /\ counts.extracts >= 1
    /\ backoff.raised = "" /\ ended = "error"

-----------------------------------------------------------------------------
(* Claims about the range for all integers, checked under SpecCrawl *)

\* the counts a request is checked with: below 1, inside and above the listing
RangeCounts == -1..MaxUrls + 1

\* the steps of handle_request on a POST with the counts s and e from ends:
\* the URLs selected are the listing positions max(1, s)..min(e, total)
RangeIsClamped(ends) ==
    (pc = "crawl" /\ phase = "requested" /\ request.method = "POST" /\ listing.ok)
      => \A s \in RangeCounts, e \in ends :
            request.json = RangeBody(s, e)
            => /\ detail_urls' = Positions(Max(1, s), Min(e, listing.links))
               /\ (detail_urls' = <<>>
                     => phase' = "finished" /\ IsSuccessReply(response', 0))

\* the URLs selected are gone through, and their number is reported
SelectedAreProcessed ==
    /\ [][(pc = "crawl" /\ phase # "requested") => detail_urls' = detail_urls]_vars
    /\ []((pc = "crawl" /\ phase = "finished" /\ response.code = 200
           /\ PyGet(response.payload, "status", JNull) = JStr(<<"success">>))
          => /\ processed = detail_urls
             /\ IsSuccessReply(response, Len(detail_urls)))

\* C30: for all integer values of startAuctionCrawlCount = s and
\* endAuctionCrawlCount = e (including s < 1, e > total, e < 1 and s > e),
\* crawl_kvd processes exactly the URLs at the 1-based positions p with
\* max(1, s) <= p <= min(e, total), none if there is no such p, and the
\* processed_urls it reports equals that number.
C30_RangeForAllIntegers ==
    [][RangeIsClamped(RangeCounts)]_vars /\ SelectedAreProcessed

\* the same for the end counts that are not negative
C30_RangeForEndNotNegative ==
    [][RangeIsClamped(0..MaxUrls + 1)]_vars /\ SelectedAreProcessed

=============================================================================
